---------------------------- MODULE Spec2Model ----------------------------
(***************************************************************************)
(* A model of StructuralMaster's server side: the in-memory record store    *)
(* with its analyze route (src/server/routes.ts, MemStorage in              *)
(* src/server/storage.ts), the finite-element engine FEMEngine and the      *)
(* design-code checker DesignEngine (both in src/server/storage.ts).        *)
(*                                                                          *)
(* JavaScript numbers are modelled as binary floating-point values with a   *)
(* mantissa of Prec bits, rounded to nearest (ties to even) after every     *)
(* operation, with NaN and the two infinities.  The exponent is unbounded   *)
(* and the sign of zero is not kept.                                        *)
(***************************************************************************)
EXTENDS Integers, Sequences, FiniteSets, TLC

(***************************************************************************)
(* Numbers.  A number is <<k, m, e>>: k = 0 a finite value m * 2^e with     *)
(* m = 0 (and e = 0) or 2^(Prec-1) <= |m| < 2^Prec; k = 1 an infinity of    *)
(* sign m; k = 2 NaN.                                                       *)
(***************************************************************************)
Prec == 13

Pow2Tab ==
  <<1, 2, 4, 8, 16, 32, 64, 128, 256, 512, 1024, 2048, 4096, 8192, 16384,
    32768, 65536, 131072, 262144, 524288, 1048576, 2097152, 4194304,
    8388608, 16777216, 33554432, 67108864, 134217728, 268435456,
    536870912, 1073741824>>

Pow2(k) == Pow2Tab[k + 1]

NaN == <<2, 0, 0>>
PosInf == <<1, 1, 0>>
NegInf == <<1, -1, 0>>
Zero == <<0, 0, 0>>

IsNaN(x) == x[1] = 2
IsInf(x) == x[1] = 1
IsFinite(x) == x[1] = 0
IsZero(x) == x[1] = 0 /\ x[2] = 0

IAbs(n) == IF n < 0 THEN -n ELSE n
ISign(n) == IF n < 0 THEN -1 ELSE IF n > 0 THEN 1 ELSE 0

\* the number of bits of a > 0
BitLen(a) ==
  IF a < 65536
  THEN IF a < 256
       THEN IF a < 16
            THEN IF a < 4 THEN (IF a < 2 THEN 1 ELSE 2)
                          ELSE (IF a < 8 THEN 3 ELSE 4)
            ELSE IF a < 64 THEN (IF a < 32 THEN 5 ELSE 6)
                           ELSE (IF a < 128 THEN 7 ELSE 8)
       ELSE IF a < 4096
            THEN IF a < 1024 THEN (IF a < 512 THEN 9 ELSE 10)
                             ELSE (IF a < 2048 THEN 11 ELSE 12)
            ELSE IF a < 16384 THEN (IF a < 8192 THEN 13 ELSE 14)
                              ELSE (IF a < 32768 THEN 15 ELSE 16)
  ELSE IF a < 16777216
       THEN IF a < 1048576
            THEN IF a < 262144 THEN (IF a < 131072 THEN 17 ELSE 18)
                               ELSE (IF a < 524288 THEN 19 ELSE 20)
            ELSE IF a < 4194304 THEN (IF a < 2097152 THEN 21 ELSE 22)
                                ELSE (IF a < 8388608 THEN 23 ELSE 24)
       ELSE IF a < 268435456
            THEN IF a < 67108864 THEN (IF a < 33554432 THEN 25 ELSE 26)
                                 ELSE (IF a < 134217728 THEN 27 ELSE 28)
            ELSE IF a < 1073741824 THEN (IF a < 536870912 THEN 29 ELSE 30)
                                   ELSE 31

\* s * q2 * 2^e, where rounding may have carried q2 up to 2^Prec
Carry(q2, s, e) ==
  IF q2 = Pow2(Prec) THEN <<0, s * Pow2(Prec - 1), e + 1>> ELSE <<0, s * q2, e>>

\* s * (q + r / (2 * half)) * 2^e with q rounded to nearest, ties to even
RoundEven(q, r, half, s, e) ==
  Carry(q + (IF r > half \/ (r = half /\ q % 2 = 1) THEN 1 ELSE 0), s, e)

\* s * a * 2^e for a > 0 of b bits
NormBits(a, s, e, b) ==
  IF b <= Prec THEN <<0, s * a * Pow2(Prec - b), e - (Prec - b)>>
  ELSE RoundEven(a \div Pow2(b - Prec), a % Pow2(b - Prec), Pow2(b - Prec - 1),
                 s, e + (b - Prec))

\* m * 2^e rounded to Prec bits, to nearest, ties to even
Norm(m, e) ==
  IF m = 0 THEN Zero ELSE NormBits(IAbs(m), ISign(m), e, BitLen(IAbs(m)))

FromInt(n) == Norm(n, 0)

FNeg(x) == IF x[1] = 2 THEN x ELSE <<x[1], -x[2], x[3]>>

FAbs(x) == IF x[1] = 2 THEN x ELSE <<x[1], IAbs(x[2]), x[3]>>

FSign(x) == ISign(x[2])

FMul(x, y) ==
  IF x[1] = 0 /\ y[1] = 0
  THEN IF x[2] = 0 \/ y[2] = 0 THEN Zero ELSE Norm(x[2] * y[2], x[3] + y[3])
  ELSE IF x[1] = 2 \/ y[1] = 2 THEN NaN
  ELSE IF x[2] = 0 \/ y[2] = 0 THEN NaN
  ELSE <<1, ISign(x[2]) * ISign(y[2]), 0>>

\* s * (q + r / d) * 2^e for 2^Prec <= q < 2^(Prec+2), correctly rounded
DivRound(q, r, d, s, e) ==
  IF q >= Pow2(Prec)
  THEN Norm(s * ((q \div 2)
                 + (IF q % 2 = 1 /\ (r > 0 \/ (q \div 2) % 2 = 1) THEN 1 ELSE 0)),
            e + 1)
  ELSE Norm(s * (q + (IF 2 * r > d \/ (2 * r = d /\ q % 2 = 1) THEN 1 ELSE 0)), e)

FDiv(x, y) ==
  IF x[1] = 0 /\ y[1] = 0
  THEN IF y[2] = 0
       THEN IF x[2] = 0 THEN NaN ELSE <<1, ISign(x[2]), 0>>
       ELSE IF x[2] = 0 THEN Zero
       ELSE DivRound((IAbs(x[2]) * Pow2(Prec)) \div IAbs(y[2]),
                     (IAbs(x[2]) * Pow2(Prec)) % IAbs(y[2]),
                     IAbs(y[2]), ISign(x[2]) * ISign(y[2]),
                     x[3] - y[3] - Prec)
  ELSE IF x[1] = 2 \/ y[1] = 2 THEN NaN
  ELSE IF x[1] = 1 /\ y[1] = 1 THEN NaN
  ELSE IF x[1] = 1 THEN <<1, x[2] * (IF y[2] < 0 THEN -1 ELSE 1), 0>>
  ELSE Zero

\* hi + lo for finite nonzero hi, lo with hi's exponent the larger
AddAligned(hi, lo) ==
  IF hi[3] - lo[3] > Prec + 1 THEN hi
  ELSE Norm(hi[2] * Pow2(hi[3] - lo[3]) + lo[2], lo[3])

FAdd(x, y) ==
  IF x[1] = 0 /\ y[1] = 0
  THEN IF y[2] = 0 THEN x
       ELSE IF x[2] = 0 THEN y
       ELSE IF x[3] >= y[3] THEN AddAligned(x, y) ELSE AddAligned(y, x)
  ELSE IF x[1] = 2 \/ y[1] = 2 THEN NaN
  ELSE IF x[1] = 1 /\ y[1] = 1 THEN (IF x[2] = y[2] THEN x ELSE NaN)
  ELSE IF x[1] = 1 THEN x ELSE y

FSub(x, y) == FAdd(x, FNeg(y))

\* x < y, x <= y, x = y as JavaScript compares numbers (false with a NaN)
FLt(x, y) ==
  IF x[1] = 2 \/ y[1] = 2 THEN FALSE
  ELSE IF x[1] = 1 \/ y[1] = 1
       THEN IF x[1] = 1 /\ y[1] = 1 THEN x[2] < y[2]
            ELSE IF x[1] = 1 THEN x[2] < 0 ELSE y[2] > 0
  ELSE FSign(FSub(x, y)) < 0

FEq(x, y) == x[1] # 2 /\ y[1] # 2 /\ x = y

FLe(x, y) == FLt(x, y) \/ FEq(x, y)

FGt(x, y) == FLt(y, x)

FGe(x, y) == FLe(y, x)

RECURSIVE ISqrtBetween(_, _, _)
\* the largest q in lo..hi with q*q <= n (lo*lo <= n)
ISqrtBetween(n, lo, hi) ==
  IF lo >= hi THEN lo
  ELSE LET mid == (lo + hi + 1) \div 2
       IN IF mid * mid <= n THEN ISqrtBetween(n, mid, hi)
          ELSE ISqrtBetween(n, lo, mid - 1)

\* the square root of n * 2^(2 * e), q the integer part of the root of n
SqrtRound(n, q, e) == Norm(q + (IF n > q * q + q THEN 1 ELSE 0), e)

\* the square root of m * 2^(e - k), k chosen to make e - k even
SqrtScaled(m, e, k) ==
  SqrtRound(m * Pow2(k),
            ISqrtBetween(m * Pow2(k), Pow2(Prec - 1), Pow2(Prec) - 1),
            (e - k) \div 2)

FSqrt(x) ==
  IF x[1] = 2 THEN NaN
  ELSE IF x[2] < 0 THEN NaN
  ELSE IF x[1] = 1 \/ x[2] = 0 THEN x
  ELSE SqrtScaled(x[2], x[3],
                  IF (x[3] - (Prec - 1)) % 2 = 0 THEN Prec - 1 ELSE Prec)

\* the decimal literal n / 10^k
Dec(n, k) == FDiv(FromInt(n), FromInt(10 ^ k))

\* the literal n * 10^k
Sci(n, k) == FromInt(n * 10 ^ k)

\* Math.max and Math.min of two numbers: NaN when either is
FMax(x, y) == IF x[1] = 2 \/ y[1] = 2 THEN NaN ELSE IF FLt(x, y) THEN y ELSE x

FMin(x, y) == IF x[1] = 2 \/ y[1] = 2 THEN NaN ELSE IF FLt(y, x) THEN y ELSE x

\* Math.PI
PI == Dec(314159265, 8)

HalfPI == FDiv(PI, FromInt(2))

\* 1 - y2 / d * t, a step of the sine series
SinStep(y2, d, t) == FSub(FromInt(1), FMul(FDiv(y2, FromInt(d)), t))

\* the sine series of y, y2 = y * y, for |y| <= PI / 2
SinSeries(y, y2) ==
  FMul(y, SinStep(y2, 6, SinStep(y2, 20, SinStep(y2, 42, SinStep(y2, 72,
            SinStep(y2, 110, FromInt(1)))))))

RECURSIVE SinFinite(_)
\* Math.sin of a finite x, brought into -PI / 2 .. PI / 2
SinFinite(x) ==
  IF x[2] < 0 THEN FNeg(SinFinite(FNeg(x)))
  ELSE IF FLe(x, HalfPI) THEN SinSeries(x, FMul(x, x))
  ELSE IF FLe(x, FMul(FromInt(3), HalfPI)) THEN SinFinite(FSub(PI, x))
  ELSE SinFinite(FSub(x, FMul(FromInt(2), PI)))

\* Math.sin and Math.cos
FSin(x) == IF x[1] # 0 THEN NaN ELSE SinFinite(x)

FCos(x) == IF x[1] # 0 THEN NaN ELSE SinFinite(FSub(HalfPI, x))

\* 1 + t / d * u, a step of the exponential series
ExpStep(t, d, u) == FAdd(FromInt(1), FMul(FDiv(t, FromInt(d)), u))

\* the exponential series of t, for |t| <= 1 / 2
ExpSeries(t) ==
  ExpStep(t, 1, ExpStep(t, 2, ExpStep(t, 3, ExpStep(t, 4, ExpStep(t, 5,
    ExpStep(t, 6, ExpStep(t, 7, FromInt(1))))))))

Square(x) == FMul(x, x)

RECURSIVE ExpFinite(_)
\* e to a finite t, by halving t until the series serves
ExpFinite(t) ==
  IF FLe(FAbs(t), Dec(5, 1)) THEN ExpSeries(t)
  ELSE Square(ExpFinite(FDiv(t, FromInt(2))))

\* z2 / d + u, a step of the series of the inverse hyperbolic tangent
AtanhStep(z2, d, u) == FAdd(FDiv(FromInt(1), FromInt(d)), FMul(z2, u))

\* 2 * atanh(z), z2 = z * z, for |z| <= 1 / 3
TwiceAtanh(z, z2) ==
  FMul(FMul(FromInt(2), z),
       AtanhStep(z2, 1, AtanhStep(z2, 3, AtanhStep(z2, 5, AtanhStep(z2, 7,
         AtanhStep(z2, 9, AtanhStep(z2, 11, Zero)))))))

\* the logarithm of a mantissa f in 1/2 .. 1, from z = (f - 1) / (f + 1)
LnMantissa(z) == TwiceAtanh(z, FMul(z, z))

LN2 == Dec(693147181, 9)

\* the natural logarithm of a finite b > 0, b = f * 2^k with f in 1/2 .. 1
LnScaled(f, k) ==
  FAdd(LnMantissa(FDiv(FSub(f, FromInt(1)), FAdd(f, FromInt(1)))),
       FMul(FromInt(k), LN2))

LnFinite(b) ==
  LnScaled(<<0, b[2], -BitLen(b[2])>>, b[3] + BitLen(b[2]))

\* b ** x for a finite base b in 0 .. 1
FPow(b, x) ==
  IF x[1] = 2 THEN NaN
  ELSE IF x[1] = 1 THEN (IF x[2] > 0 THEN Zero ELSE PosInf)
  ELSE IF x[2] = 0 THEN FromInt(1)
  ELSE ExpFinite(FMul(x, LnFinite(b)))

\* null where a number is expected, x || null, and null in arithmetic
Null == <<3, 0, 0>>

OrNull(x) == IF x[1] = 3 \/ x[1] = 2 \/ (x[1] = 0 /\ x[2] = 0) THEN Null ELSE x

\* x || d
OrElse(x, d) == IF OrNull(x) = Null THEN d ELSE x

ToNumber(x) == IF x[1] = 3 THEN Zero ELSE x

(***************************************************************************)
(* JavaScript Maps.  A Map keeps its keys in insertion order; set() on a    *)
(* key that is present keeps its place.  get() of a missing key yields      *)
(* undefined, modelled by the test Has.                                     *)
(***************************************************************************)
EmptyMap == [keys |-> <<>>, val |-> <<>>]

KeySet(M) == {M.keys[i] : i \in 1..Len(M.keys)}

Has(M, k) == k \in KeySet(M)

Get(M, k) == M.val[k]

MapSet(M, k, v) ==
  [keys |-> IF Has(M, k) THEN M.keys ELSE Append(M.keys, k),
   val |-> [x \in KeySet(M) \cup {k} |-> IF x = k THEN v ELSE M.val[x]]]

(***************************************************************************)
(* FEMEngine: reference data set by the constructor.                        *)
(***************************************************************************)
initializeDefaultMaterials ==
  [keys |-> <<1, 2, 3>>,
   val |-> [i \in {1, 2, 3} |->
     IF i = 1
     THEN [elasticModulus |-> FromInt(210), shearModulus |-> FromInt(81),
           yieldStrength |-> FromInt(355), ultimateStrength |-> FromInt(490)]
     ELSE IF i = 2
     THEN [elasticModulus |-> FromInt(210), shearModulus |-> FromInt(81),
           yieldStrength |-> FromInt(275), ultimateStrength |-> FromInt(430)]
     ELSE [elasticModulus |-> FromInt(33), shearModulus |-> Dec(1375, 2),
           yieldStrength |-> FromInt(30), ultimateStrength |-> FromInt(37)]]]

initializeDefaultSections ==
  [keys |-> <<1, 2>>,
   val |-> [i \in {1, 2} |->
     IF i = 1
     THEN [area |-> Dec(391, 1), momentOfInertiaY |-> FromInt(3892),
           momentOfInertiaZ |-> FromInt(284), torsionalConstant |-> Dec(698, 2),
           sectionModulusY |-> FromInt(324), sectionModulusZ |-> Dec(473, 1),
           radiusOfGyrationY |-> Dec(997, 2), radiusOfGyrationZ |-> Dec(269, 2)]
     ELSE [area |-> Dec(538, 1), momentOfInertiaY |-> FromInt(8356),
           momentOfInertiaZ |-> FromInt(604), torsionalConstant |-> Dec(201, 1),
           sectionModulusY |-> FromInt(557), sectionModulusZ |-> Dec(805, 1),
           radiusOfGyrationY |-> Dec(125, 1), radiusOfGyrationZ |-> Dec(335, 2)]]]

(***************************************************************************)
(* FEMEngine: dense matrices are sequences of rows.                         *)
(***************************************************************************)
\* an array holding the values of f (a function on 1..n), each computed once
Array(f) == f \o <<>>

RECURSIVE DotFrom(_, _, _, _, _, _)
\* result[i][j] after the terms k..inner have been added to acc
DotFrom(A, B, i, j, k, acc) ==
  IF k > Len(B) THEN acc
  ELSE DotFrom(A, B, i, j, k + 1, FAdd(acc, FMul(A[i][k], B[k][j])))

matrixMultiply(A, B) ==
  Array([i \in 1..Len(A) |->
           Array([j \in 1..Len(B[1]) |-> DotFrom(A, B, i, j, 1, Zero)])])

matrixTranspose(A) ==
  Array([j \in 1..Len(A[1]) |-> Array([i \in 1..Len(A) |-> A[i][j]])])

\* the twelve rows of the local stiffness matrix, from its distinct entries
BeamRows(a, na, t, nt, z12, nz12, z6, nz6, z4, z2, y12, ny12, y6, ny6, y4, y2, o) ==
  << <<a,  o,    o,    o,  o,   o,   na, o,    o,    o,  o,   o>>,
     <<o,  z12,  o,    o,  o,   z6,  o,  nz12, o,    o,  o,   nz6>>,
     <<o,  o,    y12,  o,  ny6, o,   o,  o,    ny12, o,  y6,  o>>,
     <<o,  o,    o,    t,  o,   o,   o,  o,    o,    nt, o,   o>>,
     <<o,  o,    ny6,  o,  y4,  o,   o,  o,    y6,   o,  y2,  o>>,
     <<o,  z6,   o,    o,  o,   z4,  o,  nz6,  o,    o,  o,   z2>>,
     <<na, o,    o,    o,  o,   o,   a,  o,    o,    o,  o,   o>>,
     <<o,  nz12, o,    o,  o,   nz6, o,  z12,  o,    o,  o,   z6>>,
     <<o,  o,    ny12, o,  y6,  o,   o,  o,    y12,  o,  ny6, o>>,
     <<o,  o,    o,    nt, o,   o,   o,  o,    o,    t,  o,   o>>,
     <<o,  o,    y6,   o,  y2,  o,   o,  o,    ny6,  o,  y4,  o>>,
     <<o,  nz6,  o,    o,  o,   z2,  o,  z6,   o,    o,  o,   z4>> >>

\* the local stiffness matrix from EA/L, GJ/L and EI/L^3, EI/L^2, EI/L of both axes
BeamTerms(EA_L, GJ_L, EIz_L3, EIz_L2, EIz_L, EIy_L3, EIy_L2, EIy_L) ==
  BeamRows(EA_L, FNeg(EA_L), GJ_L, FNeg(GJ_L),
           FMul(FromInt(12), EIz_L3), FMul(FromInt(-12), EIz_L3),
           FMul(FromInt(6), EIz_L2), FMul(FromInt(-6), EIz_L2),
           FMul(FromInt(4), EIz_L), FMul(FromInt(2), EIz_L),
           FMul(FromInt(12), EIy_L3), FMul(FromInt(-12), EIy_L3),
           FMul(FromInt(6), EIy_L2), FMul(FromInt(-6), EIy_L2),
           FMul(FromInt(4), EIy_L), FMul(FromInt(2), EIy_L), Zero)

\* the local stiffness matrix from E*Iz, E*Iy and L*L, L*L*L
BeamPowers(E, G, A, J, L, EIz, EIy, L2, L3) ==
  BeamTerms(FDiv(FMul(E, A), L), FDiv(FMul(G, J), L),
            FDiv(EIz, L3), FDiv(EIz, L2), FDiv(EIz, L),
            FDiv(EIy, L3), FDiv(EIy, L2), FDiv(EIy, L))

\* the local stiffness matrix with the entries below the diagonal left at 0
calculateBeamStiffnessMatrixUpper(E, G, A, Iy, Iz, J, L) ==
  LET ke == BeamPowers(E, G, A, J, L, FMul(E, Iz), FMul(E, Iy), FMul(L, L),
                       FMul(FMul(L, L), L))
  IN Array([i \in 1..12 |->
              Array([j \in 1..12 |-> IF j >= i THEN ke[i][j] ELSE Zero])])

calculateBeamStiffnessMatrix(E, G, A, Iy, Iz, J, L) ==
  BeamPowers(E, G, A, J, L, FMul(E, Iz), FMul(E, Iy), FMul(L, L),
             FMul(FMul(L, L), L))

calculateTransformationMatrix(cx, cy, cz) ==
  LET dcm == << <<cx, cy, cz>>,
                <<FNeg(cy), cx, Zero>>,
                <<FMul(FNeg(cx), cz), FMul(FNeg(cy), cz),
                  FSqrt(FAdd(FMul(cx, cx), FMul(cy, cy)))>> >>
  IN Array([r \in 1..12 |-> Array([c \in 1..12 |->
        IF (r - 1) \div 3 = (c - 1) \div 3
        THEN dcm[((r - 1) % 3) + 1][((c - 1) % 3) + 1]
        ELSE Zero])])


(***************************************************************************)
(* FEMEngine: an engine value eng holds the fields of one instance: the     *)
(* model (nodes, elements, loads, loadCases, loadCombinations) and the      *)
(* workspace (K, F, U, dofMap, totalDOFs).  A step that can throw yields    *)
(* [eng, err]: the fields as the throw leaves them and the error, "" when   *)
(* it returns normally.                                                     *)
(***************************************************************************)
E9 == Sci(1, 9)
Em4 == Dec(1, 4)
Em6 == Dec(1, 6)
Em8 == Dec(1, 8)
E6 == Sci(1, 6)

ZeroVector(n) == Array([i \in 1..n |-> Zero])

RECURSIVE DofsFrom(_, _, _)
\* the dofs of one node with restraints r, components i..6, counting from next
DofsFrom(r, i, next) ==
  IF i > 6 THEN <<>>
  ELSE IF ~r[i] THEN <<next>> \o DofsFrom(r, i + 1, next + 1)
  ELSE <<-1>> \o DofsFrom(r, i + 1, next)

FreeCount(r) == Cardinality({i \in 1..6 : ~r[i]})

RECURSIVE DofMapRestarted(_, _, _, _)
\* a DOF map in which the numbers of every node start from 0
DofMapRestarted(nodes, i, next, acc) ==
  IF i > Len(nodes.keys) THEN [dofMap |-> acc, totalDOFs |-> next]
  ELSE DofMapRestarted(nodes, i + 1,
                       next + FreeCount(nodes.val[nodes.keys[i]].restraints),
                       MapSet(acc, nodes.keys[i],
                              DofsFrom(nodes.val[nodes.keys[i]].restraints, 1, 0)))

RECURSIVE DofMapFrom(_, _, _, _)
DofMapFrom(nodes, i, next, acc) ==
  IF i > Len(nodes.keys) THEN [dofMap |-> acc, totalDOFs |-> next]
  ELSE LET id == nodes.keys[i]
           r == nodes.val[id].restraints
       IN DofMapFrom(nodes, i + 1, next + FreeCount(r),
                     MapSet(acc, id, DofsFrom(r, 1, next)))

\* a DOF map that is only built when the engine has none
setupDOFMappingOnce(eng) ==
  IF eng.dofMap.keys # <<>> THEN eng
  ELSE [eng EXCEPT !.dofMap = DofMapFrom(eng.nodes, 1, 0, EmptyMap).dofMap,
                   !.totalDOFs = DofMapFrom(eng.nodes, 1, 0, EmptyMap).totalDOFs]

setupDOFMapping(eng) ==
  LET m == DofMapFrom(eng.nodes, 1, 0, EmptyMap)
  IN [eng EXCEPT !.dofMap = m.dofMap, !.totalDOFs = m.totalDOFs]

\* matrices that are kept when they already have the size asked for
initializeMatricesReuse(eng) ==
  IF eng.totalDOFs > 0 /\ Len(eng.K) = eng.totalDOFs THEN eng
  ELSE [eng EXCEPT !.K = Array([i \in 1..eng.totalDOFs |-> ZeroVector(eng.totalDOFs)]),
                   !.F = ZeroVector(eng.totalDOFs),
                   !.U = ZeroVector(eng.totalDOFs)]

initializeMatrices(eng) ==
  [eng EXCEPT !.K = Array([i \in 1..eng.totalDOFs |-> ZeroVector(eng.totalDOFs)]),
              !.F = ZeroVector(eng.totalDOFs),
              !.U = ZeroVector(eng.totalDOFs)]

\* the property reads of calculateElementStiffnessMatrix that hit undefined
StiffnessThrows(eng, element) ==
  \/ ~Has(eng.nodes, element.endNodeId)
  \/ ~Has(eng.nodes, element.startNodeId)
  \/ ~Has(initializeDefaultMaterials, element.materialId)
  \/ ~Has(initializeDefaultSections, element.sectionId)

\* the square root of dx*dx + dy*dy + dz*dz
Hypot(dx, dy, dz) == FSqrt(FAdd(FAdd(FMul(dx, dx), FMul(dy, dy)), FMul(dz, dz)))

LengthBetween(startNode, endNode) ==
  Hypot(FSub(endNode.x, startNode.x), FSub(endNode.y, startNode.y),
        FSub(endNode.z, startNode.z))

calculateElementLength(eng, element) ==
  LengthBetween(Get(eng.nodes, element.startNodeId),
                Get(eng.nodes, element.endNodeId))

\* T^T * ke * T
ToGlobal(ke, T) == matrixMultiply(matrixMultiply(matrixTranspose(T), ke), T)

\* the global stiffness matrix of an element of length L along (dx, dy, dz)
ElementStiffness(material, section, dx, dy, dz, L) ==
  ToGlobal(calculateBeamStiffnessMatrix(
             FMul(material.elasticModulus, E9), FMul(material.shearModulus, E9),
             FMul(section.area, Em4), FMul(section.momentOfInertiaY, Em8),
             FMul(section.momentOfInertiaZ, Em8),
             FMul(section.torsionalConstant, Em8), L),
           calculateTransformationMatrix(FDiv(dx, L), FDiv(dy, L), FDiv(dz, L)))

ElementStiffnessAlong(material, section, dx, dy, dz) ==
  ElementStiffness(material, section, dx, dy, dz, Hypot(dx, dy, dz))

ElementStiffnessBetween(material, section, startNode, endNode) ==
  ElementStiffnessAlong(material, section, FSub(endNode.x, startNode.x),
                        FSub(endNode.y, startNode.y), FSub(endNode.z, startNode.z))

calculateElementStiffnessMatrix(eng, element) ==
  ElementStiffnessBetween(Get(initializeDefaultMaterials, element.materialId),
                          Get(initializeDefaultSections, element.sectionId),
                          Get(eng.nodes, element.startNodeId),
                          Get(eng.nodes, element.endNodeId))

Indices12 == <<1, 2, 3, 4, 5, 6, 7, 8, 9, 10, 11, 12>>

RECURSIVE AddEntries(_, _, _, _)
\* v after ke[i][j] has been added for the (i, j) of pairs, in order
AddEntries(v, ke, pairs, n) ==
  IF n > Len(pairs) THEN v
  ELSE AddEntries(FAdd(v, ke[pairs[n][1]][pairs[n][2]]), ke, pairs, n + 1)

\* the local (i, j), row by row, whose DOFs are the global (p, q)
PairsAt(elementDOFs, p, q) ==
  LET is == SelectSeq(Indices12, LAMBDA i : elementDOFs[i] = p)
      js == SelectSeq(Indices12, LAMBDA j : elementDOFs[j] = q)
  IN [n \in 1..(Len(is) * Len(js)) |->
        <<is[((n - 1) \div Len(js)) + 1], js[((n - 1) % Len(js)) + 1]>>]

\* K when ke[i][j] is stored at the free DOFs in place of being added
ScatterStored(K, ke, elementDOFs) ==
  Array([p \in 1..Len(K) |-> Array([q \in 1..Len(K) |->
     IF Len(PairsAt(elementDOFs, p - 1, q - 1)) = 0 THEN K[p][q]
     ELSE AddEntries(Zero, ke, PairsAt(elementDOFs, p - 1, q - 1), 1)])])

\* K after the loops over i and j have added ke[i][j] at the free DOFs
Scatter(K, ke, elementDOFs) ==
  Array([p \in 1..Len(K) |-> Array([q \in 1..Len(K) |->
     AddEntries(K[p][q], ke, PairsAt(elementDOFs, p - 1, q - 1), 1)])])

assembleElementMatrix(eng, element, ke) ==
  LET startDOFs == Get(eng.dofMap, element.startNodeId)
      endDOFs == Get(eng.dofMap, element.endNodeId)
      elementDOFs == startDOFs \o endDOFs
  IN [eng EXCEPT !.K = Scatter(eng.K, ke, elementDOFs)]

RECURSIVE AssembleFrom(_, _)
\* the loop of buildGlobalStiffnessMatrix from the i-th element on
AssembleFrom(eng, i) ==
  IF i > Len(eng.elements.keys) THEN [eng |-> eng, err |-> ""]
  ELSE LET element == Get(eng.elements, eng.elements.keys[i])
       IN IF StiffnessThrows(eng, element)
          THEN [eng |-> eng, err |-> "TypeError"]
          ELSE AssembleFrom(
                 assembleElementMatrix(eng, element,
                   calculateElementStiffnessMatrix(eng, element)), i + 1)

buildGlobalStiffnessMatrix(eng) ==
  AssembleFrom(initializeMatrices(setupDOFMapping(eng)), 1)


IndexOf(seq, x) ==
  IF \E i \in 1..Len(seq) : seq[i] = x
  THEN (CHOOSE i \in 1..Len(seq) : seq[i] = x /\ \A j \in 1..(i - 1) : seq[j] # x) - 1
  ELSE -1

\* a factor of 1 for a load case the combination does not name
FactorOrOne(loadCombination, load) ==
  IF load.loadCase \in DOMAIN loadCombination.factors
  THEN loadCombination.factors[load.loadCase]
  ELSE FromInt(1)

\* loadCombination.factors[load.loadCase] || 0
FactorOf(loadCombination, load) ==
  IF load.loadCase \in DOMAIN loadCombination.factors
  THEN LET f == loadCombination.factors[load.loadCase]
       IN IF IsNaN(f) THEN Zero ELSE f
  ELSE Zero

NodalLoadThrows(eng, load) ==
  ~Has(eng.dofMap, load.nodeId)
    /\ IndexOf(<<"x", "y", "z", "mx", "my", "mz">>, load.direction) >= 0

\* a nodal load added without its factor
applyNodalLoadUnfactored(eng, load, factor) ==
  LET dofs == Get(eng.dofMap, load.nodeId)
      directionIndex == IndexOf(<<"x", "y", "z", "mx", "my", "mz">>, load.direction)
  IN IF directionIndex >= 0 /\ dofs[directionIndex + 1] >= 0
     THEN [eng EXCEPT !.F[dofs[directionIndex + 1] + 1] =
                         FAdd(@, load.magnitude)]
     ELSE eng

applyNodalLoad(eng, load, factor) ==
  LET dofs == Get(eng.dofMap, load.nodeId)
      directionIndex == IndexOf(<<"x", "y", "z", "mx", "my", "mz">>, load.direction)
  IN IF directionIndex >= 0 /\ dofs[directionIndex + 1] >= 0
     THEN [eng EXCEPT !.F[dofs[directionIndex + 1] + 1] =
                         FAdd(@, FMul(load.magnitude, factor))]
     ELSE eng

ElementLoadThrows(eng, load) ==
  \/ ~Has(eng.elements, load.elementId)
  \/ LET element == Get(eng.elements, load.elementId)
     IN \/ ~Has(eng.nodes, element.startNodeId)
        \/ ~Has(eng.nodes, element.endNodeId)

AddAt(F, dof, v) == IF dof >= 0 THEN [F EXCEPT ![dof + 1] = FAdd(@, v)] ELSE F

\* F after half has been added at both ends' DOFs of the load's direction
AddHalves(eng, startDOFs, endDOFs, directionIndex, half) ==
  IF directionIndex >= 0
  THEN [eng EXCEPT !.F =
          AddAt(AddAt(eng.F, startDOFs[directionIndex + 1], half),
                endDOFs[directionIndex + 1], half)]
  ELSE eng

DistributeOver(eng, element, load, factor) ==
  AddHalves(eng, Get(eng.dofMap, element.startNodeId),
            Get(eng.dofMap, element.endNodeId),
            IndexOf(<<"x", "y", "z">>, load.direction),
            FDiv(FMul(FMul(load.magnitude, calculateElementLength(eng, element)),
                      factor),
                 FromInt(2)))

\* an element load lumped whatever its type
applyElementLoadOfAnyType(eng, load, factor) ==
  DistributeOver(eng, Get(eng.elements, load.elementId), load, factor)

applyElementLoad(eng, load, factor) ==
  IF load.type = "distributed"
  THEN DistributeOver(eng, Get(eng.elements, load.elementId), load, factor)
  ELSE eng

RECURSIVE ApplyLoadsFrom(_, _, _)
\* the loop of applyLoads from the i-th load on
ApplyLoadsFrom(eng, loadCombination, i) ==
  IF i > Len(eng.loads.keys) THEN [eng |-> eng, err |-> ""]
  ELSE LET load == Get(eng.loads, eng.loads.keys[i])
           factor == FactorOf(loadCombination, load)
       IN IF load.nodeId # ""
          THEN IF NodalLoadThrows(eng, load)
               THEN [eng |-> eng, err |-> "TypeError"]
               ELSE ApplyLoadsFrom(applyNodalLoad(eng, load, factor),
                                   loadCombination, i + 1)
          ELSE IF load.elementId # ""
          THEN IF ElementLoadThrows(eng, load)
               THEN [eng |-> eng, err |-> "TypeError"]
               ELSE ApplyLoadsFrom(applyElementLoad(eng, load, factor),
                                   loadCombination, i + 1)
          ELSE ApplyLoadsFrom(eng, loadCombination, i + 1)

applyLoads(eng, loadCombination) ==
  ApplyLoadsFrom([eng EXCEPT !.F = Array([i \in 1..Len(eng.F) |-> Zero])],
                 loadCombination, 1)

(***************************************************************************)
(* FEMEngine: the solver.  Rows and columns are numbered from 1 here; the   *)
(* augmented matrix has n + 1 columns.                                      *)
(***************************************************************************)
RECURSIVE FindPivot(_, _, _, _, _)
FindPivot(augmented, n, i, k, maxRow) ==
  IF k > n THEN maxRow
  ELSE IF FGt(FAbs(augmented[k][i]), FAbs(augmented[maxRow][i]))
       THEN FindPivot(augmented, n, i, k + 1, k)
       ELSE FindPivot(augmented, n, i, k + 1, maxRow)

SwapRows(augmented, i, maxRow) ==
  [augmented EXCEPT ![i] = augmented[maxRow], ![maxRow] = augmented[i]]

\* row k after the row i, scaled, has been taken off it from column i on
EliminateRow(augmented, n, i, k) ==
  LET factor == FDiv(augmented[k][i], augmented[i][i])
  IN Array([j \in 1..(n + 1) |->
        IF j >= i THEN FSub(augmented[k][j], FMul(factor, augmented[i][j]))
        ELSE augmented[k][j]])

\* the rows after the rows below i have had the row i taken off them
EliminateBelow(augmented, n, i) ==
  Array([k \in 1..n |->
           IF k > i THEN EliminateRow(augmented, n, i, k) ELSE augmented[k]])

\* next(x), x being computed before next begins: a statement of the loop body
\* has run to its end before the next one starts
Then(x, next(_)) == CHOOSE after \in {next(value) : value \in {x}} : TRUE

RECURSIVE ForwardFrom(_, _, _)
ForwardFrom(augmented, n, i) ==
  IF i > n THEN augmented
  ELSE Then(EliminateBelow(
              SwapRows(augmented, i, FindPivot(augmented, n, i, i + 1, i)), n, i),
            LAMBDA eliminated : ForwardFrom(eliminated, n, i + 1))

RECURSIVE BackRow(_, _, _, _, _, _)
\* U[i] after the terms of the columns j..n have been taken off acc
BackRow(augmented, U, n, i, j, acc) ==
  IF j > n THEN acc
  ELSE BackRow(augmented, U, n, i, j + 1, FSub(acc, FMul(augmented[i][j], U[j])))

RECURSIVE BackFrom(_, _, _, _)
BackFrom(augmented, U, n, i) ==
  IF i < 1 THEN U
  ELSE Then([U EXCEPT ![i] = FDiv(BackRow(augmented, U, n, i, i + 1,
                                          augmented[i][n + 1]),
                                  augmented[i][i])],
            LAMBDA solved : BackFrom(augmented, solved, n, i - 1))

\* [K | F]
Augmented(eng) == Array([i \in 1..Len(eng.K) |-> eng.K[i] \o <<eng.F[i]>>])

gaussianElimination(eng) ==
  [eng EXCEPT !.U = Then(ForwardFrom(Augmented(eng), eng.totalDOFs, 1),
                         LAMBDA augmented :
                           BackFrom(augmented, eng.U, eng.totalDOFs,
                                    eng.totalDOFs))]

solveSystem(eng) == gaussianElimination(eng)

(***************************************************************************)
(* FEMEngine: results.                                                      *)
(***************************************************************************)
MapOver(keys, f(_)) ==
  LET vals == Array([i \in 1..Len(keys) |-> f(keys[i])])
  IN [keys |-> keys,
      val |-> [k \in {keys[i] : i \in 1..Len(keys)} |->
                 vals[CHOOSE i \in 1..Len(keys) : keys[i] = k]]]

extractNodalDisplacements(eng) ==
  LET disp(nodeId) ==
        LET dofs == Get(eng.dofMap, nodeId)
        IN Array([i \in 1..6 |-> IF dofs[i] >= 0 THEN eng.U[dofs[i] + 1] ELSE Zero])
  IN MapOver(eng.dofMap.keys, disp)

RECURSIVE RowTimes(_, _, _, _)
RowTimes(row, u, j, acc) ==
  IF j > 12 THEN acc
  ELSE RowTimes(row, u, j + 1, FAdd(acc, FMul(row[j], u[j])))

calculateElementForces(eng, element) ==
  LET elementDOFs == Get(eng.dofMap, element.startNodeId)
                       \o Get(eng.dofMap, element.endNodeId)
      elementDisplacements ==
        Array([i \in 1..12 |-> IF elementDOFs[i] >= 0 THEN eng.U[elementDOFs[i] + 1]
                               ELSE Zero])
      ke == calculateElementStiffnessMatrix(eng, element)
  IN Array([i \in 1..12 |-> RowTimes(ke[i], elementDisplacements, 1, Zero)])

calculateInternalForces(eng) ==
  LET f(elementId) == calculateElementForces(eng, Get(eng.elements, elementId))
  IN MapOver(eng.elements.keys, f)

calculateStresses(eng, forces) ==
  LET st(elementId) ==
        LET elementForces == Get(forces, elementId)
            section == Get(initializeDefaultSections,
                           Get(eng.elements, elementId).sectionId)
            A == FMul(section.area, Em4)
            Wy == FMul(section.sectionModulusY, Em6)
            Wz == FMul(section.sectionModulusZ, Em6)
            axialStress == FDiv(FAbs(elementForces[1]), A)
            bendingStressY == FDiv(FAbs(elementForces[6]), Wy)
            bendingStressZ == FDiv(FAbs(elementForces[5]), Wz)
        IN <<FDiv(axialStress, E6), Zero, Zero, Zero,
             FDiv(bendingStressY, E6), FDiv(bendingStressZ, E6)>>
  IN MapOver(forces.keys, st)

calculateReactions(eng) ==
  LET re(nodeId) ==
        LET node == Get(eng.nodes, nodeId)
            dofs == Get(eng.dofMap, nodeId)
        IN Array([i \in 1..6 |->
              IF node.restraints[i]
              THEN IF dofs[i] >= 0 THEN eng.F[dofs[i] + 1] ELSE Zero
              ELSE Zero])
  IN MapOver(eng.nodes.keys, re)

\* analyzeStatic: [eng, err, results, trace]; results is meaningful when
\* err = "".  trace lists the solver states the call has been through.
NoResults ==
  [displacements |-> EmptyMap, forces |-> EmptyMap, stresses |-> EmptyMap,
   reactions |-> EmptyMap]

\* analyzeStatic once the system has been solved and the forces computed
Extract(solved, forces) ==
  [eng |-> solved, err |-> "",
   results |-> [displacements |-> extractNodalDisplacements(solved),
                forces |-> forces,
                stresses |-> calculateStresses(solved, forces),
                reactions |-> calculateReactions(solved)],
   trace |-> <<"Unbuilt", "Assembled", "Solved", "ResultsExtracted">>]

Solve(solved) == Extract(solved, calculateInternalForces(solved))

\* analyzeStatic once applyLoads has returned or thrown
AfterLoads(loaded) ==
  IF loaded.err # ""
  THEN [eng |-> loaded.eng, err |-> loaded.err, results |-> NoResults,
        trace |-> <<"Unbuilt">>]
  ELSE Solve(solveSystem(loaded.eng))

\* analyzeStatic once buildGlobalStiffnessMatrix has returned or thrown
AfterBuild(built, loadCombination) ==
  IF built.err # ""
  THEN [eng |-> built.eng, err |-> built.err, results |-> NoResults,
        trace |-> <<"Unbuilt">>]
  ELSE AfterLoads(applyLoads(built.eng, loadCombination))

\* an analyzeStatic that looks its combination up after building K
analyzeStaticBuildFirst(eng, loadCombinationId) ==
  IF ~Has(eng.loadCombinations, loadCombinationId)
  THEN [eng |-> buildGlobalStiffnessMatrix(eng).eng,
        err |-> "Load combination not found",
        results |-> NoResults, trace |-> <<>>]
  ELSE AfterBuild(buildGlobalStiffnessMatrix(eng),
                  Get(eng.loadCombinations, loadCombinationId))

analyzeStatic(eng, loadCombinationId) ==
  IF ~Has(eng.loadCombinations, loadCombinationId)
  THEN [eng |-> eng, err |-> "Load combination not found",
        results |-> NoResults, trace |-> <<>>]
  ELSE AfterBuild(buildGlobalStiffnessMatrix(eng),
                  Get(eng.loadCombinations, loadCombinationId))

\* the mode shapes of analyzeBuckling and analyzeDynamic: new Map(displacements)
\* mode shapes read from the workspace as it is after the await
ModeShapeLive(eng, staticResults) == extractNodalDisplacements(eng)

ModeShape(eng, staticResults) == staticResults.displacements

bucklingModes(eng, staticResults, numModes) ==
  [i \in 1..numModes |->
     [mode |-> i,
      factor |-> FAdd(FromInt(5), FMul(FromInt(i - 1), FromInt(2))),
      shape |-> ModeShape(eng, staticResults)]]

frequencies(eng, staticResults, numModes) ==
  [i \in 1..numModes |->
     [mode |-> i,
      frequency |-> FMul(FromInt(5), FromInt(i)),
      shape |-> ModeShape(eng, staticResults)]]

addNode(eng, node) ==
  [eng EXCEPT !.nodes = MapSet(@, node.id, node)]

addElement(eng, element) ==
  [eng EXCEPT !.elements = MapSet(@, element.id, element)]

addLoad(eng, load) ==
  [eng EXCEPT !.loads = MapSet(@, load.id, load)]

addLoadCase(eng, loadCase) ==
  [eng EXCEPT !.loadCases = MapSet(@, loadCase.id, loadCase)]

addLoadCombination(eng, combination) ==
  [eng EXCEPT !.loadCombinations = MapSet(@, combination.id, combination)]

\* a FEMEngine as its constructor leaves it
NewEngine ==
  [nodes |-> EmptyMap, elements |-> EmptyMap, loads |-> EmptyMap,
   loadCases |-> EmptyMap, loadCombinations |-> EmptyMap,
   K |-> <<>>, F |-> <<>>, U |-> <<>>, dofMap |-> EmptyMap, totalDOFs |-> 0]

(***************************************************************************)
(* The callers of the engine: what they add and which analyses they ask     *)
(* for.                                                                     *)
(***************************************************************************)
MaxCalls == 3
MaxEdits == 1
\* analyzeBuckling and analyzeDynamic invocations, ended or not
MaxModal == 1

Fixed == <<TRUE, TRUE, TRUE, TRUE, TRUE, TRUE>>
Unrestrained == <<FALSE, FALSE, FALSE, FALSE, FALSE, FALSE>>

NodeAt(id, x, y, z, restraints) ==
  [id |-> id, x |-> FromInt(x), y |-> FromInt(y), z |-> FromInt(z),
   restraints |-> restraints]

N1Fixed == NodeAt("N1", 0, 0, 0, Fixed)
N1Free == NodeAt("N1", 0, 0, 0, Unrestrained)
N2Free == NodeAt("N2", 4, 0, 0, Unrestrained)

\* N2 held in z and against rotation about x
N2Guided == NodeAt("N2", 4, 0, 0, <<FALSE, FALSE, TRUE, TRUE, FALSE, FALSE>>)

\* what a caller adds to a model in place: N1 set free, N2 guided, N3 aside
\* N3 moved aside, so that an element from (0,0,3) to it is inclined
N3Aside == NodeAt("N3", 3, 4, 3, <<FALSE, TRUE, TRUE, FALSE, FALSE, FALSE>>)

NodeChoices == {N1Free, N2Guided, N3Aside}

Beam(id, startNodeId, endNodeId, materialId, sectionId) ==
  [id |-> id, startNodeId |-> startNodeId, endNodeId |-> endNodeId,
   materialId |-> materialId, sectionId |-> sectionId]

E1Beam == Beam("E1", "N1", "N2", 1, 1)
\* both ends at the same node: length 0
E2ZeroLength == Beam("E2", "N2", "N2", 1, 2)
\* a material id that is not in the engine's materials
E2NoMaterial == Beam("E2", "N1", "N2", 9, 1)

\* a second beam between the nodes of E1
E2Beam == Beam("E2", "N1", "N2", 1, 2)

\* a brace from N1 to N3
E3Brace == Beam("E3", "N1", "N3", 1, 1)

ElementChoices == {E2ZeroLength, E2NoMaterial, E2Beam, E3Brace}

L1Tip ==
  [id |-> "L1", type |-> "point", nodeId |-> "N2", elementId |-> "",
   magnitude |-> FromInt(-10000), direction |-> "y", loadCase |-> "DL"]

\* a distributed load on E1
L2Spread ==
  [id |-> "L2", type |-> "distributed", nodeId |-> "", elementId |-> "E1",
   magnitude |-> FromInt(-2000), direction |-> "y", loadCase |-> "DL"]

LoadChoices == {L1Tip, L2Spread}

LoadCaseChoices == {[id |-> "DL", type |-> "dead", factor |-> FromInt(1)]}

COMB1 == [id |-> "COMB1", factors |-> [c \in {"DL"} |-> Dec(135, 2)]]

\* COMB1 given again with another factor
COMB1Service == [id |-> "COMB1", factors |-> [c \in {"DL"} |-> FromInt(1)]]

\* COMB1 given again with a factor for live load only
COMB1Live == [id |-> "COMB1", factors |-> [c \in {"LL"} |-> Dec(15, 1)]]

CombinationChoices == {COMB1Service, COMB1Live}

\* the ids analyses are asked for; COMB2 is never registered
CombinationIds == {"COMB1", "COMB2"}

NumModesChoices == {2}

\* a caller's script: the cantilever N1 - N2 with a tip load
Cantilever ==
  addLoadCombination(
    addLoad(
      addLoadCase(
        addElement(addNode(addNode(NewEngine, N1Fixed), N2Free), E1Beam),
        [id |-> "DL", type |-> "dead", factor |-> FromInt(1)]),
      L1Tip),
    COMB1)

\* the top of the column and the far end of the girder, which slides in x
N2Top == NodeAt("N2", 0, 0, 3, Unrestrained)
N3Slide == NodeAt("N3", 4, 0, 3, <<FALSE, TRUE, TRUE, FALSE, FALSE, FALSE>>)

LoadOn(id, type, nodeId, elementId, magnitude, direction) ==
  [id |-> id, type |-> type, nodeId |-> nodeId, elementId |-> elementId,
   magnitude |-> FromInt(magnitude), direction |-> direction, loadCase |-> "DL"]

\* the loads of the frame: nodal loads on a free and on a restrained DOF,
\* distributed loads on the girder along x, z and my, a load that names a node
\* and an element, a point load on an element, and a load without a target
FrameLoads ==
  <<LoadOn("L1", "point", "N2", "", 5000, "x"),
    LoadOn("L2", "point", "N3", "", -1000, "z"),
    LoadOn("L3", "distributed", "", "E2", 1000, "x"),
    LoadOn("L4", "distributed", "", "E2", -2000, "z"),
    LoadOn("L5", "distributed", "", "E2", 500, "my"),
    LoadOn("L6", "distributed", "N2", "E2", 700, "y"),
    LoadOn("L7", "point", "", "E2", -900, "z"),
    LoadOn("L8", "point", "", "", 100, "z")>>

RECURSIVE AddLoadsFrom(_, _, _)
\* eng after addLoad for the loads from the i-th on
AddLoadsFrom(eng, loads, i) ==
  IF i > Len(loads) THEN eng
  ELSE AddLoadsFrom(addLoad(eng, loads[i]), loads, i + 1)

\* a caller's script: a column N1 - N2 and a girder N2 - N3 with their loads
Frame ==
  addLoadCombination(
    AddLoadsFrom(
      addLoadCase(
        addElement(
          addElement(
            addNode(addNode(addNode(NewEngine, N1Fixed), N2Top), N3Slide),
            Beam("E1", "N1", "N2", 1, 1)),
          Beam("E2", "N2", "N3", 1, 2)),
        [id |-> "DL", type |-> "dead", factor |-> FromInt(1)]),
      FrameLoads, 1),
    COMB1)

\* the engine eng with the workspace of a new engine
Fresh(eng) ==
  [eng EXCEPT !.K = <<>>, !.F = <<>>, !.U = <<>>, !.dofMap = EmptyMap,
              !.totalDOFs = 0]

VARIABLES
  engine,    \* the fields of the FEMEngine instance
  call,      \* the last run of analyzeStatic and the one before it
  pending,   \* analyzeBuckling / analyzeDynamic invocations at their await
  returned,  \* what the last analyzeBuckling / analyzeDynamic promise settled with
  edits,     \* the number of single add calls made so far
  store,     \* the fields of the MemStorage instance
  requests,  \* the analyze request being served, at its await
  served,    \* per project, the analyze requests answered so far
  design,    \* the last design check and what it gave
  beam       \* the input of the client's beam calculation and what it gave

vars == <<engine, call, pending, returned, edits, store, requests, served, design, beam>>

femVars == <<engine, call, pending, returned, edits>>

\* a run of analyzeStatic: the engine at entry, what the run gave, and whether
\* the model is still as the run saw it
NoRun ==
  [n |-> 0, op |-> "none", comb |-> "", err |-> "", results |-> NoResults,
   trace |-> <<>>, fresh |-> FALSE, entry |-> NewEngine]

NoCall ==
  [n |-> 0, op |-> "none", comb |-> "", err |-> "", results |-> NoResults,
   trace |-> <<>>, fresh |-> FALSE, entry |-> NewEngine, prev |-> NoRun]

NoReturn ==
  [n |-> 0, op |-> "none", comb |-> "", err |-> "", results |-> NoResults,
   modes |-> <<>>, entry |-> NewEngine, overtaken |-> FALSE, live |-> <<>>]

InitFEM ==
  /\ engine = NewEngine
  /\ call = NoCall
  /\ pending = <<>>
  /\ returned = NoReturn
  /\ edits = 0

\* the model has changed since the last run
Stale(c) == [c EXCEPT !.fresh = FALSE]

BuildCantilever ==
  /\ engine.nodes.keys = <<>> /\ engine.elements.keys = <<>>
  /\ engine.loads.keys = <<>> /\ engine.loadCases.keys = <<>>
  /\ engine.loadCombinations.keys = <<>>
  /\ engine' = [Cantilever EXCEPT !.K = engine.K, !.F = engine.F, !.U = engine.U,
                                  !.dofMap = engine.dofMap,
                                  !.totalDOFs = engine.totalDOFs]
  /\ call' = Stale(call)
  /\ UNCHANGED <<pending, returned, edits, store, requests, served, design, beam>>

BuildFrame ==
  /\ engine.nodes.keys = <<>> /\ engine.elements.keys = <<>>
  /\ engine.loads.keys = <<>> /\ engine.loadCases.keys = <<>>
  /\ engine.loadCombinations.keys = <<>>
  /\ engine' = [Frame EXCEPT !.K = engine.K, !.F = engine.F, !.U = engine.U,
                             !.dofMap = engine.dofMap,
                             !.totalDOFs = engine.totalDOFs]
  /\ call' = Stale(call)
  /\ UNCHANGED <<pending, returned, edits, store, requests, served, design, beam>>

AddNode ==
  \E node \in NodeChoices :
    /\ edits < MaxEdits
    /\ engine' = addNode(engine, node)
    /\ edits' = edits + 1
    /\ call' = Stale(call)
    /\ UNCHANGED <<pending, returned, store, requests, served, design, beam>>

AddElement ==
  \E element \in ElementChoices :
    /\ edits < MaxEdits
    /\ engine' = addElement(engine, element)
    /\ edits' = edits + 1
    /\ call' = Stale(call)
    /\ UNCHANGED <<pending, returned, store, requests, served, design, beam>>

AddLoad ==
  \E load \in LoadChoices :
    /\ edits < MaxEdits
    /\ engine' = addLoad(engine, load)
    /\ edits' = edits + 1
    /\ call' = Stale(call)
    /\ UNCHANGED <<pending, returned, store, requests, served, design, beam>>

AddLoadCase ==
  \E loadCase \in LoadCaseChoices :
    /\ edits < MaxEdits
    /\ engine' = addLoadCase(engine, loadCase)
    /\ edits' = edits + 1
    /\ call' = Stale(call)
    /\ UNCHANGED <<pending, returned, store, requests, served, design, beam>>

AddLoadCombination ==
  \E combination \in CombinationChoices :
    /\ edits < MaxEdits
    /\ engine' = addLoadCombination(engine, combination)
    /\ edits' = edits + 1
    /\ call' = Stale(call)
    /\ UNCHANGED <<pending, returned, store, requests, served, design, beam>>

\* the record of the run r of analyzeStatic(id), made from op
CallRecord(op, id, r) ==
  [n |-> call.n + 1, op |-> op, comb |-> id, err |-> r.err,
   results |-> r.results, trace |-> r.trace, fresh |-> TRUE, entry |-> engine,
   prev |-> [n |-> call.n, op |-> call.op, comb |-> call.comb, err |-> call.err,
             results |-> call.results, trace |-> call.trace,
             fresh |-> call.fresh, entry |-> call.entry]]

\* engine and call after the run r
Ran(op, id, r) ==
  /\ engine' = r.eng
  /\ call' = CallRecord(op, id, r)

AnalyzeStatic ==
  \E id \in CombinationIds :
    /\ call.n < MaxCalls
    /\ Ran("analyzeStatic", id, analyzeStatic(engine, id))
    /\ UNCHANGED <<pending, returned, edits, store, requests, served, design, beam>>

\* the invocation of op at its await, analyzeStatic having run and given r
AtAwait(op, id, numModes, r) ==
  [op |-> op, comb |-> id, numModes |-> numModes, err |-> r.err,
   staticResults |-> r.results, entry |-> engine, at |-> call.n + 1]

\* engine, call and pending after op has run analyzeStatic, which gave r
Invoked(op, id, numModes, r) ==
  /\ Ran(op, id, r)
  /\ pending' = Append(pending, AtAwait(op, id, numModes, r))

AnalyzeBuckling ==
  \E id \in CombinationIds, numModes \in NumModesChoices :
    /\ call.n < MaxCalls
    /\ returned.n + Len(pending) < MaxModal
    /\ Invoked("analyzeBuckling", id, numModes, analyzeStatic(engine, id))
    /\ UNCHANGED <<returned, edits, store, requests, served, design, beam>>

AnalyzeDynamic ==
  \E numModes \in NumModesChoices :
    /\ call.n < MaxCalls
    /\ returned.n + Len(pending) < MaxModal
    /\ Invoked("analyzeDynamic", "COMB1", numModes,
               analyzeStatic(engine, "COMB1"))
    /\ UNCHANGED <<returned, edits, store, requests, served, design, beam>>

\* what the invocation p settles with once it runs on from its await
Settled(p) ==
  [n |-> returned.n + 1, op |-> p.op, comb |-> p.comb, err |-> p.err,
   results |-> p.staticResults,
   modes |-> IF p.err # "" THEN <<>>
             ELSE IF p.op = "analyzeBuckling"
             THEN bucklingModes(engine, p.staticResults, p.numModes)
             ELSE frequencies(engine, p.staticResults, p.numModes),
   entry |-> p.entry, overtaken |-> call.n > p.at, live |-> engine.U]

\* the code after the await of the oldest pending invocation
Resume ==
  /\ pending # <<>>
  /\ returned' = Settled(Head(pending))
  /\ pending' = Tail(pending)
  /\ UNCHANGED <<engine, call, edits, store, requests, served, design, beam>>

(***************************************************************************)
(* MemStorage and the analyze route.                                        *)
(***************************************************************************)
MapDelete(M, k) ==
  [keys |-> SelectSeq(M.keys, LAMBDA x : x # k),
   val |-> [x \in KeySet(M) \ {k} |-> M.val[x]]]

\* Array.from(M.values())
Values(M) == Array([i \in 1..Len(M.keys) |-> M.val[M.keys[i]]])

\* a string field that is null
NullText == "<null>"

NewStore ==
  [projects |-> EmptyMap, elements |-> EmptyMap, loads |-> EmptyMap,
   supports |-> EmptyMap, analysisResults |-> EmptyMap,
   currentProjectId |-> 1,
   currentElementId |-> 1, currentLoadId |-> 1, currentSupportId |-> 1,
   currentAnalysisResultId |-> 1]

\* what a method returns: undefined, or a value
Undefined == [defined |-> FALSE]

Defined(value) == [defined |-> TRUE, value |-> value]

\* text || other
OrText(text, other) == IF text = "" THEN other ELSE text

\* the record createProject makes of project at the time now
NewProject(id, project, now) ==
  [id |-> id, name |-> project.name,
   description |-> OrText(project.description, NullText),
   units |-> OrText(project.units, "metric"),
   analysisType |-> OrText(project.analysisType, "static"),
   designCode |-> OrText(project.designCode, "AISC360"),
   createdAt |-> now, modelData |-> OrText(project.modelData, NullText)]

createProject(st, project, now) ==
  [st EXCEPT !.projects = MapSet(@, st.currentProjectId,
                                 NewProject(st.currentProjectId, project, now)),
             !.currentProjectId = @ + 1]

\* { ...record, ...updates }
Merged(record, updates) ==
  [f \in DOMAIN record |->
     IF f \in DOMAIN updates THEN updates[f] ELSE record[f]]

updateProject(st, id, updates) ==
  IF ~Has(st.projects, id) THEN st
  ELSE [st EXCEPT !.projects = MapSet(@, id, Merged(Get(@, id), updates))]

\* what updateProject returns
updateProjectReturns(st, id, updates) ==
  IF ~Has(st.projects, id) THEN Undefined
  ELSE Defined(Merged(Get(st.projects, id), updates))

deleteProject(st, id) == [st EXCEPT !.projects = MapDelete(@, id)]

\* what deleteProject returns: this.projects.delete(id)
deleteProjectReturns(st, id) == Defined(Has(st.projects, id))

getElementsByProjectId(st, projectId) ==
  SelectSeq(Values(st.elements), LAMBDA e : e.projectId = projectId)

\* the record createElement makes of element
NewElement(id, element) ==
  [id |-> id, projectId |-> element.projectId,
   elementId |-> element.elementId,
   startX |-> element.startX, startY |-> element.startY,
   endX |-> element.endX, endY |-> element.endY,
   length |-> element.length]

\* a store that gives a new element the first id that no element holds
createElementAtGap(st, element) ==
  [st EXCEPT !.elements =
               MapSet(@, Len(st.elements.keys) + 1,
                      NewElement(Len(st.elements.keys) + 1, element)),
             !.currentElementId = @ + 1]

createElement(st, element) ==
  [st EXCEPT !.elements =
               MapSet(@, st.currentElementId,
                      NewElement(st.currentElementId, element)),
             !.currentElementId = @ + 1]

\* { ...element, ...updates }
Spread(element, updates) ==
  [f \in DOMAIN element |->
     IF f \in DOMAIN updates THEN updates[f] ELSE element[f]]

updateElement(st, id, updates) ==
  IF ~Has(st.elements, id) THEN st
  ELSE [st EXCEPT !.elements = MapSet(@, id, Spread(Get(@, id), updates))]

\* what updateElement returns
updateElementReturns(st, id, updates) ==
  IF ~Has(st.elements, id) THEN Undefined
  ELSE Defined(Spread(Get(st.elements, id), updates))

deleteElement(st, id) == [st EXCEPT !.elements = MapDelete(@, id)]

\* what deleteElement returns: this.elements.delete(id)
deleteElementReturns(st, id) == Defined(Has(st.elements, id))

getLoadsByProjectId(st, projectId) ==
  SelectSeq(Values(st.loads), LAMBDA l : l.projectId = projectId)

createLoad(st, load) ==
  [st EXCEPT !.loads =
               MapSet(@, st.currentLoadId,
                      [id |-> st.currentLoadId, projectId |-> load.projectId,
                       loadId |-> load.loadId, type |-> load.type,
                       elementId |-> IF load.elementId = "" THEN NullText
                                     ELSE load.elementId,
                       position |-> OrNull(load.position),
                       magnitude |-> load.magnitude]),
             !.currentLoadId = @ + 1]

getSupportsByProjectId(st, projectId) ==
  SelectSeq(Values(st.supports), LAMBDA x : x.projectId = projectId)

getAnalysisResultsByProjectId(st, projectId) ==
  SelectSeq(Values(st.analysisResults), LAMBDA r : r.projectId = projectId)

createAnalysisResult(st, result) ==
  [st EXCEPT !.analysisResults =
               MapSet(@, st.currentAnalysisResultId,
                      [id |-> st.currentAnalysisResultId,
                       projectId |-> result.projectId,
                       elementId |-> result.elementId,
                       loadCase |-> result.loadCase,
                       maxMoment |-> OrNull(result.maxMoment),
                       maxShear |-> OrNull(result.maxShear),
                       maxDisplacement |-> OrNull(result.maxDisplacement),
                       maxStress |-> OrNull(result.maxStress),
                       utilizationRatio |-> OrNull(result.utilizationRatio),
                       resultsData |-> result.resultsData]),
             !.currentAnalysisResultId = @ + 1]

RECURSIVE DeleteFrom(_, _, _)
\* M without the records results[k], results[k + 1], ...
DeleteFrom(M, results, k) ==
  IF k > Len(results) THEN M
  ELSE DeleteFrom(MapDelete(M, results[k].id), results, k + 1)

\* a store that deletes no analysis results
deleteNothing(st, projectId) == st

\* a store that deletes the analysis results of every project
deleteEveryAnalysisResult(st, projectId) ==
  [st EXCEPT !.analysisResults = EmptyMap]

deleteAnalysisResultsByProjectId(st, projectId) ==
  [st EXCEPT !.analysisResults =
               DeleteFrom(@, getAnalysisResultsByProjectId(st, projectId), 1)]

\* the constants of runStructuralAnalysis: E, I, the yield stress and the
\* section modulus
SteelE == FMul(FromInt(210), Sci(1, 9))
BeamI == Dec(3892, 8)
Yield == Sci(355, 6)
Modulus == Dec(324, 6)

NoMaxima == [maxMoment |-> Zero, maxShear |-> Zero, maxDisplacement |-> Zero]

\* the maxima after a point load P at a on a span L
PointMaxima(m, P, a, L) ==
  [maxMoment |-> FMax(m.maxMoment, FDiv(FMul(FMul(P, a), FSub(L, a)), L)),
   maxShear |-> FMax(m.maxShear,
                     FMax(FDiv(FMul(P, FSub(L, a)), L), FDiv(FMul(P, a), L))),
   maxDisplacement |->
     FMax(m.maxDisplacement,
          FDiv(FMul(FMul(FMul(P, a), FSub(L, a)),
                    FSqrt(FMul(FromInt(3),
                               FSub(FMul(L, L),
                                    FMul(FMul(FromInt(4), a), FSub(L, a)))))),
               FMul(FMul(FMul(FromInt(27), SteelE), BeamI), L)))]

\* the maxima after a distributed load w on a span L
DistributedMaxima(m, w, L) ==
  [maxMoment |-> FMax(m.maxMoment, FDiv(FMul(FMul(w, L), L), FromInt(8))),
   maxShear |-> FMax(m.maxShear, FDiv(FMul(w, L), FromInt(2))),
   maxDisplacement |->
     FMax(m.maxDisplacement,
          FDiv(FMul(FMul(FromInt(5), w), FMul(FMul(L, L), FMul(L, L))),
               FMul(FMul(FromInt(384), SteelE), BeamI)))]

RECURSIVE MaximaFrom(_, _, _, _)
\* the loop over elementLoads from the k-th load on
MaximaFrom(elementLoads, L, k, m) ==
  IF k > Len(elementLoads) THEN m
  ELSE IF elementLoads[k].type = "point"
  THEN MaximaFrom(elementLoads, L, k + 1,
                  PointMaxima(m, elementLoads[k].magnitude,
                              FMul(ToNumber(elementLoads[k].position), L), L))
  ELSE IF elementLoads[k].type = "distributed"
  THEN MaximaFrom(elementLoads, L, k + 1,
                  DistributedMaxima(m, elementLoads[k].magnitude, L))
  ELSE MaximaFrom(elementLoads, L, k + 1, m)

\* the positions when each is worked out as i * L / 20
PositionsScaled(L) ==
  Array([i \in 1..21 |-> FDiv(FMul(FromInt(i - 1), L), FromInt(20))])

\* the 21 positions along a span L
Positions(L) ==
  Array([i \in 1..21 |-> FMul(FDiv(FromInt(i - 1), FromInt(20)), L)])

\* PI * x / L for the positions x
Angles(positions, L) ==
  Array([i \in 1..21 |-> FDiv(FMul(PI, positions[i]), L)])

\* the result of one element from its maxima, positions and angles
ResultOf(projectId, element, m, positions, angles) ==
  [projectId |-> projectId,
   elementId |-> element.elementId,
   loadCase |-> "Dead Load",
   maxMoment |-> FDiv(m.maxMoment, FromInt(1000)),
   maxShear |-> FDiv(m.maxShear, FromInt(1000)),
   maxDisplacement |-> FMul(m.maxDisplacement, FromInt(1000)),
   maxStress |-> FDiv(m.maxMoment, Modulus),
   utilizationRatio |-> FDiv(m.maxMoment, FMul(Yield, Modulus)),
   resultsData |->
     [positions |-> positions,
      moments |-> Array([i \in 1..21 |->
                    FDiv(FMul(m.maxMoment, FSin(angles[i])), FromInt(1000))]),
      shears |-> Array([i \in 1..21 |->
                   FDiv(FMul(m.maxShear, FCos(angles[i])), FromInt(1000))]),
      displacements |-> Array([i \in 1..21 |->
                          FMul(FMul(m.maxDisplacement, FSin(angles[i])),
                               FromInt(1000))])]]

\* the result of one element whose positions are known
ResultAt(projectId, element, m, positions) ==
  ResultOf(projectId, element, m, positions, Angles(positions, element.length))

runStructuralAnalysis(projectId, elements, loads, supports) ==
  Array([k \in 1..Len(elements) |->
    ResultAt(projectId, elements[k],
             MaximaFrom(SelectSeq(loads,
                                  LAMBDA l : l.elementId = elements[k].elementId),
                        elements[k].length, 1, NoMaxima),
             Positions(elements[k].length))])

(***************************************************************************)
(* The requests.  Every promise MemStorage returns is already settled, so a  *)
(* handler that has started runs on from await to await before the next     *)
(* turn of the event loop takes up a request.  Handlers that start in one   *)
(* turn are resumed in the order in which they reached their await: the     *)
(* handlers under way are a queue, the head is resumed and goes to the end. *)
(***************************************************************************)
MaxElements == 2
MaxLoads == 1
MaxRuns == 2
MaxProjects == 2

Projects == {1, 2}

\* an element from (0, 0) to (endX, endY) with the length a client gives it
Spanning(projectId, elementId, endX, endY, length) ==
  [projectId |-> projectId, elementId |-> elementId,
   startX |-> Zero, startY |-> Zero,
   endX |-> FromInt(endX), endY |-> FromInt(endY), length |-> FromInt(length)]

\* clients post elements whose length is the distance between their ends
ElementInputs ==
  {Spanning(1, "B1", 4, 0, 4), Spanning(1, "B2", 6, 0, 6),
   Spanning(2, "B1", 3, 4, 5)}

\* the bodies of PUT /api/elements/:id: an end of the element is moved
ElementUpdates == {[endX |-> FromInt(8)]}

LoadInputs ==
  {[projectId |-> 1, loadId |-> "Q1", type |-> "distributed", elementId |-> "B1",
    position |-> Null, magnitude |-> FromInt(2000)],
   [projectId |-> 1, loadId |-> "P1", type |-> "point", elementId |-> "B2",
    position |-> Dec(5, 1), magnitude |-> FromInt(10000)]}

\* beside: the project of the request that was under way together with the
\* last one served, 0 when it ran alone
NotServed ==
  [n |-> 0, fresh |-> FALSE, repeat |-> FALSE, last |-> <<>>, before |-> <<>>,
   beside |-> 0]

InitStore ==
  /\ store = NewStore
  /\ requests = <<>>
  /\ served = [p \in Projects |-> NotServed]

\* the model of project p has changed since its last analysis
Edited(p) == [served EXCEPT ![p].fresh = FALSE]

\* POST /api/elements
PostElement ==
  \E element \in ElementInputs :
    /\ requests = <<>>
    /\ store.currentElementId <= MaxElements
    /\ store' = createElement(store, element)
    /\ served' = Edited(element.projectId)
    /\ UNCHANGED <<requests, femVars, design, beam>>

\* PUT /api/elements/:id; 404 when the store has no such element
PutElement ==
  \E id \in 1..MaxElements, updates \in ElementUpdates :
    /\ requests = <<>>
    /\ store' = updateElement(store, id, updates)
    /\ served' = IF Has(store.elements, id)
                 THEN Edited(Get(store.elements, id).projectId)
                 ELSE served
    /\ UNCHANGED <<requests, femVars, design, beam>>

\* POST /api/loads
PostLoad ==
  \E load \in LoadInputs :
    /\ requests = <<>>
    /\ store.currentLoadId <= MaxLoads
    /\ store' = createLoad(store, load)
    /\ served' = Edited(load.projectId)
    /\ UNCHANGED <<requests, femVars, design, beam>>

RunsServed == served[1].n + served[2].n

\* the bodies of POST and PUT /api/projects, and the times of the clock
ProjectInputs ==
  {[name |-> "Hall", description |-> "", units |-> "", analysisType |-> "",
    designCode |-> "EC3", modelData |-> ""]}

ProjectUpdates == {[name |-> "Annex"]}

Times == {"2024-01-01T00:00:00.000Z"}

\* the ids a caller asks for: those the store can have issued and one more
RecordIds == 1..(MaxElements + 1)

\* a caller of the store at its await of op(id), which has given got
Awaiting(op, id, got) == [pc |-> "gave", op |-> op, id |-> id, got |-> got]

\* no caller is under way but one whose call has returned
Idle == IF requests = <<>> THEN TRUE ELSE Head(requests).pc = "gave"

\* the call has changed the store to st and given got
Called(st, op, id, got) ==
  /\ Idle
  /\ store' = st
  /\ requests' = <<Awaiting(op, id, got)>>
  /\ UNCHANGED <<served, femVars, design, beam>>

CreateProject ==
  \E project \in ProjectInputs, now \in Times :
    /\ store.currentProjectId <= MaxProjects
    /\ Called(createProject(store, project, now), "createProject",
              store.currentProjectId,
              Defined(NewProject(store.currentProjectId, project, now)))

UpdateProject ==
  \E id \in RecordIds, updates \in ProjectUpdates :
    Called(updateProject(store, id, updates), "updateProject", id,
           updateProjectReturns(store, id, updates))

DeleteProject ==
  \E id \in RecordIds :
    Called(deleteProject(store, id), "deleteProject", id,
           deleteProjectReturns(store, id))

CreateElement ==
  \E element \in ElementInputs :
    /\ store.currentElementId <= MaxElements
    /\ Called(createElement(store, element), "createElement",
              store.currentElementId,
              Defined(NewElement(store.currentElementId, element)))

UpdateElement ==
  \E id \in RecordIds, updates \in ElementUpdates :
    Called(updateElement(store, id, updates), "updateElement", id,
           updateElementReturns(store, id, updates))

DeleteElement ==
  \E id \in RecordIds :
    Called(deleteElement(store, id), "deleteElement", id,
           deleteElementReturns(store, id))

\* the handler of an analyze request at its first await
Started(projectId, beside) ==
  [projectId |-> projectId, pc |-> "elements",
   elements |-> getElementsByProjectId(store, projectId),
   loads |-> <<>>, supports |-> <<>>, results |-> <<>>, next |-> 1,
   repeat |-> served[projectId].n > 0 /\ served[projectId].fresh,
   beside |-> beside]

\* the queue after its head has run on to its next await as handler
Resumed(handler) == Append(Tail(requests), handler)

\* POST /api/projects/:projectId/analyze up to its first await
PostAnalyze ==
  \E projectId \in Projects :
    /\ requests = <<>>
    /\ RunsServed < MaxRuns
    /\ requests' = <<Started(projectId, 0)>>
    /\ UNCHANGED <<store, served, femVars, design, beam>>

\* POST /api/projects/:projectId/analyze of clients that ask for one analysis
\* more
PostAnalyzeAgain ==
  \E projectId \in Projects :
    /\ requests = <<>>
    /\ RunsServed <= MaxRuns
    /\ requests' = <<Started(projectId, 0)>>
    /\ UNCHANGED <<store, served, femVars, design, beam>>

\* two POST /api/projects/:projectId/analyze that one turn of the event loop
\* takes up, each up to its first await
PostAnalyzeTogether ==
  \E first, second \in Projects :
    /\ requests = <<>>
    /\ RunsServed + 1 < MaxRuns
    /\ requests' = <<Started(first, second), Started(second, first)>>
    /\ UNCHANGED <<store, served, femVars, design, beam>>

\* the head request is at the await pc
At(pc) == requests # <<>> /\ Head(requests).pc = pc

GotElements ==
  /\ At("elements")
  /\ requests' = Resumed([Head(requests) EXCEPT
                      !.pc = "loads",
                      !.loads = getLoadsByProjectId(store, Head(requests).projectId)])
  /\ UNCHANGED <<store, served, femVars, design, beam>>

GotLoads ==
  /\ At("loads")
  /\ requests' = Resumed([Head(requests) EXCEPT
                      !.pc = "supports",
                      !.supports = getSupportsByProjectId(store,
                                                          Head(requests).projectId)])
  /\ UNCHANGED <<store, served, femVars, design, beam>>

GotSupports ==
  /\ At("supports")
  /\ store' = deleteAnalysisResultsByProjectId(store, Head(requests).projectId)
  /\ requests' = Resumed([Head(requests) EXCEPT !.pc = "delete"])
  /\ UNCHANGED <<served, femVars, design, beam>>

Deleted ==
  /\ At("delete")
  /\ requests' = Resumed([Head(requests) EXCEPT
                      !.pc = "analysis",
                      !.results = runStructuralAnalysis(Head(requests).projectId,
                                    Head(requests).elements, Head(requests).loads,
                                    Head(requests).supports)])
  /\ UNCHANGED <<store, served, femVars, design, beam>>

\* the loop over results: the next createAnalysisResult
StoreResult ==
  /\ At("analysis") \/ At("create")
  /\ Head(requests).next <= Len(Head(requests).results)
  /\ store' = createAnalysisResult(store,
                                   Head(requests).results[Head(requests).next])
  /\ requests' = Resumed([Head(requests) EXCEPT !.pc = "create", !.next = @ + 1])
  /\ UNCHANGED <<served, femVars, design, beam>>

\* a record as the store holds it, without its id
SansId(r) ==
  [projectId |-> r.projectId, elementId |-> r.elementId, loadCase |-> r.loadCase,
   maxMoment |-> r.maxMoment, maxShear |-> r.maxShear,
   maxDisplacement |-> r.maxDisplacement, maxStress |-> r.maxStress,
   utilizationRatio |-> r.utilizationRatio, resultsData |-> r.resultsData]

\* the results stored for project p, in store order, without their ids
StoredFor(st, p) ==
  Array([i \in 1..Len(getAnalysisResultsByProjectId(st, p)) |->
           SansId(getAnalysisResultsByProjectId(st, p)[i])])

\* res.json after the loop
Respond ==
  /\ At("analysis") \/ At("create")
  /\ Head(requests).next > Len(Head(requests).results)
  /\ requests' = Tail(requests)
  /\ served' = [served EXCEPT ![Head(requests).projectId] =
                  [n |-> @.n + 1, fresh |-> TRUE, repeat |-> Head(requests).repeat,
                   last |-> StoredFor(store, Head(requests).projectId),
                   before |-> @.last, beside |-> Head(requests).beside]]
  /\ UNCHANGED <<store, femVars, design, beam>>

(***************************************************************************)
(* DesignEngine.  A check function is async and awaits nothing: it runs to   *)
(* its end when it is called, and what it throws rejects its promise.       *)
(***************************************************************************)
One == FromInt(1)
Hundred == FromInt(100)
Thousand == FromInt(1000)

\* ratio <= 1.0 ? 'PASS' : 'FAIL'
StatusOf(ratio) == IF FLe(ratio, One) THEN "PASS" ELSE "FAIL"

\* one entry of checks
DesignResult(checkType, ratio, capacity, demand, controllingCase, notes) ==
  [checkType |-> checkType, ratio |-> ratio, capacity |-> capacity,
   demand |-> demand, status |-> StatusOf(ratio),
   controllingCase |-> controllingCase, notes |-> notes]

\* an entry whose ratio is demand / capacity
Demanded(checkType, demand, capacity, controllingCase, notes) ==
  DesignResult(checkType, FDiv(demand, capacity), capacity, demand,
               controllingCase, notes)

\* the note of a check when test holds
NoteWhen(test, note) == IF test THEN <<note>> ELSE <<>>

\* Check 1 of checkAISC360, Pn = Fy * A / 100
TensileYieldingAt(demand, capacity) ==
  Demanded("Tensile Yielding", demand, capacity, "Tension",
           NoteWhen(FGt(FDiv(demand, capacity), Dec(95, 2)),
                    "High utilization - consider larger section"))

TensileYielding(Fy, A, forces) ==
  TensileYieldingAt(forces.axial, FMul(Dec(9, 1), FDiv(FMul(Fy, A), Hundred)))

\* Check 2 of checkAISC360, Ae = 0.85 * A and Pn = Fu * Ae / 100
TensileRupture(Fu, A, forces) ==
  Demanded("Tensile Rupture", forces.axial,
           FMul(Dec(75, 2), FDiv(FMul(Fu, FMul(Dec(85, 2), A)), Hundred)),
           "Tension", <<>>)

\* slenderness = effectiveLengthFactorY * Lc / r
Slenderness(rx, ry, parameters) ==
  FDiv(FMul(parameters.effectiveLengthFactorY,
            FMul(FMax(parameters.unbragedLengthY, parameters.unbragedLengthZ),
                 Thousand)),
       FMin(rx, ry))

\* Fcr from the elastic buckling stress Fe
FcrOf(slenderness, E, Fy, Fe) ==
  IF FLe(slenderness, FMul(Dec(471, 2), FSqrt(FDiv(E, Fy))))
  THEN FMul(FPow(Dec(658, 3), FDiv(Fy, Fe)), Fy)
  ELSE FMul(Dec(877, 3), Fe)

\* Fcr at a slenderness
FcrAt(slenderness, E, Fy) ==
  FcrOf(slenderness, E, Fy,
        FDiv(FMul(FMul(PI, PI), E), FMul(slenderness, slenderness)))

\* Check 3 of checkAISC360 at a slenderness
CompressiveStrengthAt(slenderness, E, Fy, A, forces) ==
  Demanded("Compressive Strength", FAbs(forces.axial),
           FMul(Dec(9, 1), FDiv(FMul(FcrAt(slenderness, E, Fy), A), Hundred)),
           "Compression",
           NoteWhen(FGt(slenderness, FromInt(200)),
                    "High slenderness ratio - check buckling"))

\* the bracing lengths of the major-axis check
LpOf(E, Fy, ry) == FMul(FMul(Dec(176, 2), ry), FSqrt(FDiv(E, Fy)))

LrOf(E, Fy, J, A, Sx, height) ==
  FMul(FMul(FMul(Dec(195, 2), FDiv(E, FMul(Dec(7, 1), Fy))),
            FSqrt(FDiv(FMul(J, A), FMul(Sx, height)))),
       FSqrt(FAdd(One,
                  FSqrt(FAdd(One,
                             FMul(Dec(676, 2),
                                  Square(FDiv(FMul(Dec(7, 1), Fy), E))))))))

\* the else branch of the major-axis check reads Cb, which is declared in
\* the block of the branch before it: a ReferenceError
ElasticLTB(Lb, Lp, Lr) == ~ FLe(Lb, Lp) /\ ~ FLe(Lb, Lr)

\* Mn of the first two branches
MnOf(Fy, Sx, Mpx, Lb, Lp, Lr, Cb) ==
  IF FLe(Lb, Lp) THEN Mpx
  ELSE FMul(Cb,
            FSub(Mpx,
                 FDiv(FMul(FSub(Mpx, FDiv(FMul(FMul(Dec(7, 1), Fy), Sx),
                                          Thousand)),
                           FSub(Lb, Lp)),
                      FSub(Lr, Lp))))

\* Check 4 of checkAISC360, major axis, outside the else branch
MajorAxis(forces, Mn, Lb, Lr) ==
  Demanded("Flexural Strength (Major Axis)", FAbs(forces.momentY),
           FMul(Dec(9, 1), Mn), "Bending",
           NoteWhen(FGt(Lb, Lr),
                    "Elastic LTB controls - consider lateral bracing"))

\* Check 4 of checkAISC360, minor axis
MinorAxis(forces, Mpy) ==
  Demanded("Flexural Strength (Minor Axis)", FAbs(forces.momentZ),
           FMul(Dec(9, 1), Mpy), "Bending", <<>>)

\* Cv from h / tw
CvOf(slender, E, Fy) ==
  IF FLe(slender, FMul(Dec(224, 2), FSqrt(FDiv(E, Fy)))) THEN One
  ELSE IF FLe(slender, FMul(Dec(110, 2), FSqrt(FDiv(E, FMul(Dec(8, 1), Fy)))))
  THEN FDiv(FMul(Dec(224, 2), FSqrt(FDiv(E, Fy))), slender)
  ELSE FDiv(FMul(Dec(151, 2), E), FMul(Square(slender), Fy))

\* Vn = 0.6 * Fy * Aw * Cv / 10
VnOf(h, tw, E, Fy) ==
  FDiv(FMul(FMul(FMul(Dec(6, 1), Fy), FDiv(FMul(h, tw), Hundred)),
            CvOf(FDiv(h, tw), E, Fy)),
       FromInt(10))

ShearDemand(forces) ==
  FSqrt(FAdd(FMul(forces.shearY, forces.shearY),
             FMul(forces.shearZ, forces.shearZ)))

\* Check 5 of checkAISC360
ShearStrength(shearDemand, Vn) ==
  Demanded("Shear Strength", shearDemand, FMul(One, Vn), "Shear", <<>>)

\* the check types that include part
Containing(part) ==
  IF part = "Compressive" THEN {"Compressive Strength"}
  ELSE IF part = "Tensile" THEN {"Tensile Yielding", "Tensile Rupture"}
  ELSE IF part = "Major Axis"
  THEN {"Flexural Strength (Major Axis)", "Bending Resistance (Major Axis)"}
  ELSE IF part = "Minor Axis" THEN {"Flexural Strength (Minor Axis)"}
  ELSE IF part = "Lateral-torsional" THEN {}
  ELSE {}

\* checkType.includes(part) for one of the parts
IncludesAny(checkType, parts) == \E part \in parts : checkType \in Containing(part)

RECURSIVE FindFrom(_, _, _)
\* the index of the first check from the k-th on whose type includes one of
\* the parts, 0 when none does
FindFrom(checks, parts, k) ==
  IF k > Len(checks) THEN 0
  ELSE IF IncludesAny(checks[k].checkType, parts) THEN k
  ELSE FindFrom(checks, parts, k + 1)

\* checks[k]?.capacity || other, k = 0 for undefined
CapacityAt(checks, k, other) ==
  IF k = 0 THEN other ELSE OrElse(checks[k].capacity, other)

\* checks.find(...)?.capacity || other
CapacityOr(checks, parts, other) ==
  CapacityAt(checks, FindFrom(checks, parts, 1), other)

\* the interaction ratio from Pc / Pn, Pc / (2 * Pn) and the bending terms
InteractionRatio(axialTerm, halfTerm, bending) ==
  IF FGe(axialTerm, Dec(2, 1))
  THEN FAdd(axialTerm, FMul(FDiv(FromInt(8), FromInt(9)), bending))
  ELSE FAdd(halfTerm, bending)

\* Check 6 of checkAISC360 from its ratio
CombinedOf(ratio) ==
  DesignResult("Combined Axial and Flexural", ratio, One, ratio, "Combined",
               NoteWhen(FGt(ratio, Dec(95, 2)),
                        "High interaction ratio - consider optimization"))

\* Check 6 of checkAISC360 from the capacities
CombinedAt(Pc, Mcx, Mcy, Pn, Mnx, Mny) ==
  CombinedOf(InteractionRatio(FDiv(Pc, Pn), FDiv(Pc, FMul(FromInt(2), Pn)),
                              FAdd(FDiv(Mcx, Mnx), FDiv(Mcy, Mny))))

\* checks after Check 6 of checkAISC360
WithCombined(checks, forces, Mpx, Mpy) ==
  IF /\ FGt(FAbs(forces.axial), Zero)
     /\ \/ FGt(FAbs(forces.momentY), Dec(1, 2))
        \/ FGt(FAbs(forces.momentZ), Dec(1, 2))
  THEN Append(checks,
              CombinedAt(FAbs(forces.axial), FAbs(forces.momentY),
                         FAbs(forces.momentZ),
                         CapacityOr(checks, {"Compressive", "Tensile"}, Thousand),
                         CapacityOr(checks, {"Major Axis"}, FMul(Mpx, Dec(9, 1))),
                         CapacityOr(checks, {"Minor Axis"}, FMul(Mpy, Dec(9, 1)))))
  ELSE checks

RECURSIVE MaxRatioFrom(_, _, _)
\* Math.max over the ratios from the k-th check on
MaxRatioFrom(checks, k, acc) ==
  IF k > Len(checks) THEN acc
  ELSE MaxRatioFrom(checks, k + 1, FMax(acc, checks[k].ratio))

\* the ratio of the check that was made last
MaxRatioLast(checks) ==
  IF checks = <<>> THEN NegInf ELSE checks[Len(checks)].ratio

\* Math.max(...checks.map(c => c.ratio))
MaxRatio(checks) == MaxRatioFrom(checks, 1, NegInf)

OverallStatus(checks) ==
  IF \E k \in 1..Len(checks) : checks[k].status = "FAIL" THEN "FAIL"
  ELSE IF \E k \in 1..Len(checks) : checks[k].status = "WARNING" THEN "WARNING"
  ELSE "PASS"

\* the recommendations of checkAISC360
Recommendations(checks, maxRatio) ==
  (IF FGt(maxRatio, One)
   THEN <<"Section is overstressed - increase size or change grade">>
   ELSE IF FLt(maxRatio, Dec(5, 1))
   THEN <<"Section is underutilized - consider smaller section for economy">>
   ELSE <<>>)
  \o NoteWhen(\E k \in 1..Len(checks) :
                /\ IncludesAny(checks[k].checkType, {"Compressive"})
                /\ FGt(checks[k].ratio, Dec(8, 1)),
              "Consider reducing unbraced length or increasing section size")
  \o NoteWhen(\E k \in 1..Len(checks) :
                /\ IncludesAny(checks[k].checkType, {"Lateral-torsional"})
                /\ FGt(checks[k].ratio, Dec(8, 1)),
              "Consider adding lateral bracing to reduce LTB effects")

ElementDesignResult(elementId, designCode, maxRatio, checks, recommendations) ==
  [elementId |-> elementId, designCode |-> designCode,
   overallRatio |-> maxRatio, overallStatus |-> OverallStatus(checks),
   checks |-> checks, recommendations |-> recommendations]

\* what a call gives: the value of its promise, or the error that rejects it
NoDesignResult == [designCode |-> ""]

Fulfilled(result) == [err |-> "", result |-> result]

Rejected(err) == [err |-> err, result |-> NoDesignResult]

\* the end of checkAISC360
AssessAISC(elementId, checks, maxRatio) ==
  Fulfilled(ElementDesignResult(elementId, "AISC360", maxRatio, checks,
                                Recommendations(checks, maxRatio)))

\* Checks 1 to 3 of checkAISC360
AxialChecks(Fy, Fu, E, A, rx, ry, forces, parameters) ==
  IF FGt(forces.axial, Zero)
  THEN <<TensileYielding(Fy, A, forces), TensileRupture(Fu, A, forces)>>
  ELSE IF FLt(forces.axial, Zero)
  THEN <<CompressiveStrengthAt(Slenderness(rx, ry, parameters), E, Fy, A, forces)>>
  ELSE <<>>

\* Check 4 of checkAISC360 when it does not throw
FlexuralChecks(forces, Fy, Sx, Mpx, Mpy, Lb, Lp, Lr, Cb) ==
  (IF FGt(FAbs(forces.momentY), Dec(1, 2))
   THEN <<MajorAxis(forces, MnOf(Fy, Sx, Mpx, Lb, Lp, Lr, Cb), Lb, Lr)>>
   ELSE <<>>)
  \o (IF FGt(FAbs(forces.momentZ), Dec(1, 2))
      THEN <<MinorAxis(forces, Mpy)>> ELSE <<>>)

ShearChecks(shearDemand, Vn) ==
  IF FGt(shearDemand, Dec(1, 2)) THEN <<ShearStrength(shearDemand, Vn)>> ELSE <<>>

\* checkAISC360 from Check 6 on
AfterShear(elementId, checks) == AssessAISC(elementId, checks, MaxRatio(checks))

\* checkAISC360 from Check 4 on, with the bracing lengths
FromFlexure(elementId, section, forces, Fy, E, axial, Mpx, Mpy, Lb, Lp, Lr, Cb) ==
  IF FGt(FAbs(forces.momentY), Dec(1, 2)) /\ ElasticLTB(Lb, Lp, Lr)
  THEN Rejected("ReferenceError")
  ELSE AfterShear(elementId,
         WithCombined(axial
                      \o FlexuralChecks(forces, Fy, section.sectionModulusY,
                                        Mpx, Mpy, Lb, Lp, Lr, Cb)
                      \o ShearChecks(ShearDemand(forces),
                                     VnOf(OrElse(section.height, FromInt(240)),
                                          OrElse(section.thickness, FromInt(10)),
                                          E, Fy)),
                      forces, Mpx, Mpy))

\* checkAISC360 with Fy, Fu, E and the radii of gyration
CheckedAISC(elementId, section, forces, parameters, Fy, Fu, E, rx, ry) ==
  FromFlexure(elementId, section, forces, Fy, E,
              AxialChecks(Fy, Fu, E, section.area, rx, ry, forces, parameters),
              FDiv(FMul(Fy, section.sectionModulusY), Thousand),
              FDiv(FMul(Fy, section.sectionModulusZ), Thousand),
              FMul(parameters.lateralTorsionalBracingLength, Thousand),
              LpOf(E, Fy, ry),
              LrOf(E, Fy, section.torsionalConstant, section.area,
                   section.sectionModulusY, section.height),
              parameters.momentModificationFactor)

checkAISC360(elementId, material, section, forces, parameters) ==
  CheckedAISC(elementId, section, forces, parameters,
              material.yieldStrength, material.ultimateStrength,
              FMul(material.elasticModulus, Thousand),
              FDiv(section.radiusOfGyrationY, FromInt(10)),
              FDiv(section.radiusOfGyrationZ, FromInt(10)))

\* the partial factors of checkEurocode3
GammaM0 == One
GammaM1 == One

\* the reduction factor of a buckling curve from the slenderness and Phi
ChiOf(lambdaBar, Phi) ==
  FDiv(One, FAdd(Phi, FSqrt(FSub(FMul(Phi, Phi), FMul(lambdaBar, lambdaBar)))))

\* Phi = 0.5 * (1 + alpha * (lambdaBar - 0.2) + lambdaBar * lambdaBar)
PhiOf(lambdaBar) ==
  FMul(Dec(5, 1),
       FAdd(FAdd(One, FMul(Dec(34, 2), FSub(lambdaBar, Dec(2, 1)))),
            FMul(lambdaBar, lambdaBar)))

\* chi of Check 2 and chiLT of Check 4, that differ in their limit
ChiAt(lambdaBar, limit) ==
  IF FLe(lambdaBar, limit) THEN One ELSE ChiOf(lambdaBar, PhiOf(lambdaBar))

\* Check 1 of checkEurocode3
TensionResistance(A, fy, forces) ==
  Demanded("Tension Resistance", forces.axial, FDiv(FMul(A, fy), GammaM0),
           "Tension", <<>>)

\* lambdaBar of Check 2
LambdaBar(ix, iy, E, fy, parameters) ==
  FDiv(FDiv(FMax(parameters.unbragedLengthY, parameters.unbragedLengthZ),
            FMin(ix, iy)),
       FMul(PI, FSqrt(FDiv(E, fy))))

\* Check 2 of checkEurocode3 at a slenderness
CompressionResistanceAt(lambdaBar, A, fy, forces) ==
  Demanded("Compression Resistance", FAbs(forces.axial),
           FDiv(FMul(FMul(ChiAt(lambdaBar, Dec(2, 1)), A), fy), GammaM1),
           "Compression",
           NoteWhen(FGt(lambdaBar, Dec(15, 1)), "High slenderness - check buckling"))

\* Check 3 of checkEurocode3
BendingResistance(Wx, fy, forces) ==
  Demanded("Bending Resistance (Major Axis)", FAbs(forces.momentY),
           FDiv(FMul(Wx, fy), GammaM0), "Bending", <<>>)

\* lambdaBarLT of Check 4, Mcr = C1 * PI * sqrt(E * Ix * E * Iy) / Lcr
LambdaBarLT(E, Ix, Iy, Wx, fy, Lcr) ==
  FSqrt(FDiv(FMul(Wx, fy),
             FDiv(FMul(FMul(One, PI), FSqrt(FMul(FMul(FMul(E, Ix), E), Iy))),
                  Lcr)))

\* Check 4 of checkEurocode3 at a slenderness
LateralTorsionalBucklingAt(lambdaBarLT, Wx, fy, forces) ==
  Demanded("Lateral-Torsional Buckling", FAbs(forces.momentY),
           FDiv(FMul(FMul(ChiAt(lambdaBarLT, Dec(4, 1)), Wx), fy), GammaM1),
           "LTB",
           NoteWhen(FGt(lambdaBarLT, Dec(12, 1)), "High LTB slenderness - add bracing"))

\* NEd / (NRk / gammaM1) + ky * MyEd / (MyRk / gammaM1)
\*                       + kz * MzEd / (MzRk / gammaM1)
InteractionAt(NEd, MyEd, MzEd, NRk, MyRk, MzRk, ky, kz) ==
  FAdd(FAdd(FDiv(NEd, FDiv(NRk, GammaM1)),
            FDiv(FMul(ky, MyEd), FDiv(MyRk, GammaM1))),
       FDiv(FMul(kz, MzEd), FDiv(MzRk, GammaM1)))

\* Check 5 of checkEurocode3 from its ratio
CombinedEC3Of(ratio) ==
  DesignResult("Combined Bending and Axial", ratio, One, ratio, "Combined", <<>>)

CombinedEC3(NEd, MyEd, MzEd, NRk, MyRk, MzRk) ==
  CombinedEC3Of(FMax(InteractionAt(NEd, MyEd, MzEd, NRk, MyRk, MzRk,
                                   One, Dec(6, 1)),
                     InteractionAt(NEd, MyEd, MzEd, NRk, MyRk, MzRk,
                                   Dec(6, 1), One)))

\* the end of checkEurocode3
AssessEC3(elementId, checks) ==
  Fulfilled(ElementDesignResult(elementId, "EC3", MaxRatio(checks), checks, <<>>))

\* checkEurocode3 with the section properties in metres
CheckedEC3(elementId, forces, parameters, fy, E, A, Ix, Iy, Wx, Wy, ix, iy) ==
  AssessEC3(elementId,
    (IF FGt(forces.axial, Zero) THEN <<TensionResistance(A, fy, forces)>>
     ELSE <<>>)
    \o (IF FLt(forces.axial, Zero)
        THEN <<CompressionResistanceAt(LambdaBar(ix, iy, E, fy, parameters),
                                       A, fy, forces)>>
        ELSE <<>>)
    \o (IF FGt(FAbs(forces.momentY), Dec(1, 2))
        THEN <<BendingResistance(Wx, fy, forces),
               LateralTorsionalBucklingAt(
                 LambdaBarLT(E, Ix, Iy, Wx, fy,
                             parameters.lateralTorsionalBracingLength),
                 Wx, fy, forces)>>
        ELSE <<>>)
    \o (IF /\ FGt(FAbs(forces.axial), Dec(1, 2))
           /\ \/ FGt(FAbs(forces.momentY), Dec(1, 2))
              \/ FGt(FAbs(forces.momentZ), Dec(1, 2))
        THEN <<CombinedEC3(FAbs(forces.axial), FAbs(forces.momentY),
                           FAbs(forces.momentZ), FMul(A, fy), FMul(Wx, fy),
                           FMul(Wy, fy))>>
        ELSE <<>>))

checkEurocode3(elementId, material, section, forces, parameters) ==
  CheckedEC3(elementId, forces, parameters, material.yieldStrength,
             FMul(material.elasticModulus, Thousand),
             FDiv(section.area, Hundred),
             FDiv(section.momentOfInertiaY, Sci(1, 8)),
             FDiv(section.momentOfInertiaZ, Sci(1, 8)),
             FDiv(section.sectionModulusY, Sci(1, 6)),
             FDiv(section.sectionModulusZ, Sci(1, 6)),
             FDiv(section.radiusOfGyrationY, Hundred),
             FDiv(section.radiusOfGyrationZ, Hundred))

\* a candidate of optimizeSection: the properties it does not give are
\* undefined, which is NaN in arithmetic and falsy in ||
Candidate(name, area, momentOfInertiaY, sectionModulusY) ==
  [name |-> name, area |-> area, momentOfInertiaY |-> momentOfInertiaY,
   sectionModulusY |-> sectionModulusY,
   momentOfInertiaZ |-> NaN, torsionalConstant |-> NaN,
   sectionModulusZ |-> NaN, radiusOfGyrationY |-> NaN,
   radiusOfGyrationZ |-> NaN, height |-> NaN, thickness |-> NaN]

availableSections ==
  <<Candidate("IPE 200", Dec(285, 1), FromInt(1943), FromInt(194)),
    Candidate("IPE 240", Dec(391, 1), FromInt(3892), FromInt(324)),
    Candidate("IPE 300", Dec(538, 1), FromInt(8356), FromInt(557)),
    Candidate("IPE 360", Dec(727, 1), FromInt(16270), FromInt(904)),
    Candidate("IPE 400", Dec(845, 1), FromInt(23130), FromInt(1156)),
    Candidate("IPE 450", Dec(988, 1), FromInt(33740), FromInt(1500)),
    Candidate("IPE 500", FromInt(116), FromInt(48200), FromInt(1928))>>

\* the check of one candidate
CandidateResult(elementId, designCode, material, section, forces, parameters) ==
  IF designCode = "AISC360"
  THEN checkAISC360(elementId, material, section, forces, parameters)
  ELSE checkEurocode3(elementId, material, section, forces, parameters)

\* what the checks of the candidates give, in list order
CandidateResults(elementId, designCode, material, forces, parameters) ==
  Array([k \in 1..Len(availableSections) |->
           CandidateResult(elementId, designCode, material,
                           availableSections[k], forces, parameters)])

RECURSIVE FirstThrown(_, _)
\* the index of the first check from the k-th on that throws, 0 when none does
FirstThrown(outcomes, k) ==
  IF k > Len(outcomes) THEN 0
  ELSE IF outcomes[k].err # "" THEN k
  ELSE FirstThrown(outcomes, k + 1)

\* an entry of suitableSections
SuitableSection(section, result, targetUtilization) ==
  [section |-> section,
   utilization |-> result.overallRatio,
   weight |-> FMul(section.area, Dec(785, 2)),
   cost |-> FMul(section.area, Dec(25, 1)),
   efficiency |-> FDiv(targetUtilization, result.overallRatio)]

\* result.overallStatus === 'PASS' && result.overallRatio <= 1.0
IsSuitable(result) ==
  result.overallStatus = "PASS" /\ FLe(result.overallRatio, One)

RECURSIVE SuitableFrom(_, _, _)
\* suitableSections from the k-th candidate on
SuitableFrom(outcomes, targetUtilization, k) ==
  IF k > Len(outcomes) THEN <<>>
  ELSE (IF IsSuitable(outcomes[k].result)
        THEN <<SuitableSection(availableSections[k], outcomes[k].result,
                               targetUtilization)>>
        ELSE <<>>)
       \o SuitableFrom(outcomes, targetUtilization, k + 1)

\* Math.abs(a.efficiency - 1)
Closeness(a) == FAbs(FSub(a.efficiency, One))

\* sorted with x put after its j-th entry
InsertAfter(sorted, x, j) ==
  SubSeq(sorted, 1, j) \o <<x>> \o SubSeq(sorted, j + 1, Len(sorted))

RECURSIVE InsertFrom(_, _, _)
\* x put into sorted behind the last of its first j entries that the
\* comparator does not put after x
InsertFrom(sorted, x, j) ==
  IF j = 0 THEN InsertAfter(sorted, x, 0)
  ELSE IF FGt(FSub(Closeness(sorted[j]), Closeness(x)), Zero)
  THEN InsertFrom(sorted, x, j - 1)
  ELSE InsertAfter(sorted, x, j)

\* the sections left in the order of the candidates
SortFromKept(sections, k, sorted) == sections

RECURSIVE SortFrom(_, _, _)
\* Array.prototype.sort, which is stable, with the comparator
\* Math.abs(a.efficiency - 1) - Math.abs(b.efficiency - 1)
SortFrom(sections, k, sorted) ==
  IF k > Len(sections) THEN sorted
  ELSE SortFrom(sections, k + 1, InsertFrom(sorted, sections[k], Len(sorted)))

NoSections == [err |-> "", checked |-> <<>>, sections |-> <<>>]

\* optimizeSection from what the checks of the candidates give: the first
\* check that throws rejects its promise
Optimized(outcomes, thrown, targetUtilization) ==
  IF thrown > 0
  THEN [err |-> outcomes[thrown].err, checked |-> SubSeq(outcomes, 1, thrown),
        sections |-> <<>>]
  ELSE [err |-> "", checked |-> outcomes,
        sections |-> SortFrom(SuitableFrom(outcomes, targetUtilization, 1),
                              1, <<>>)]

\* optimizeSection with the outcomes of its checks
OptimizedFrom(outcomes, targetUtilization) ==
  Optimized(outcomes, FirstThrown(outcomes, 1), targetUtilization)

optimizeSection(elementId, designCode, material, forces, parameters, targetUtilization) ==
  OptimizedFrom(CandidateResults(elementId, designCode, material, forces,
                                 parameters),
                targetUtilization)

(***************************************************************************)
(* A caller of the design checks: it chooses a material, a section, the     *)
(* forces and the parameters of an element, and has it checked.             *)
(***************************************************************************)
DesignMaterials ==
  {initializeDefaultMaterials.val[1], initializeDefaultMaterials.val[2]}

\* IPE 240, IPE 300 and IPE 360 with their depth and web thickness in mm
DesignSections ==
  {[area |-> Dec(391, 1), momentOfInertiaY |-> FromInt(3892),
    momentOfInertiaZ |-> FromInt(284), torsionalConstant |-> Dec(698, 2),
    sectionModulusY |-> FromInt(324), sectionModulusZ |-> Dec(473, 1),
    radiusOfGyrationY |-> Dec(997, 2), radiusOfGyrationZ |-> Dec(269, 2),
    height |-> FromInt(240), thickness |-> Dec(62, 1)],
   [area |-> Dec(538, 1), momentOfInertiaY |-> FromInt(8356),
    momentOfInertiaZ |-> FromInt(604), torsionalConstant |-> Dec(201, 1),
    sectionModulusY |-> FromInt(557), sectionModulusZ |-> Dec(805, 1),
    radiusOfGyrationY |-> Dec(125, 1), radiusOfGyrationZ |-> Dec(335, 2),
    height |-> FromInt(300), thickness |-> Dec(71, 1)],
   [area |-> Dec(727, 1), momentOfInertiaY |-> FromInt(16270),
    momentOfInertiaZ |-> FromInt(1043), torsionalConstant |-> Dec(373, 1),
    sectionModulusY |-> FromInt(904), sectionModulusZ |-> FromInt(123),
    radiusOfGyrationY |-> FromInt(15), radiusOfGyrationZ |-> Dec(379, 2),
    height |-> FromInt(360), thickness |-> FromInt(8)]}

Forces(axial, shearY, momentY, momentZ) ==
  [axial |-> FromInt(axial), shearY |-> FromInt(shearY), shearZ |-> Zero,
   momentY |-> FromInt(momentY), momentZ |-> FromInt(momentZ), torsion |-> Zero]

NoForces == Forces(0, 0, 0, 0)

ForceChoices ==
  {Forces(axial, shearY, momentY, momentZ) :
     axial \in {-400, 0, 200}, shearY \in {0, 60},
     momentY \in {0, -40}, momentZ \in {0, 8}}

\* parameters with a lateral-torsional bracing length
Braced(length) ==
  [unbragedLengthY |-> FromInt(3), unbragedLengthZ |-> FromInt(3),
   effectiveLengthFactorY |-> One, effectiveLengthFactorZ |-> One,
   bendingFactorY |-> One, bendingFactorZ |-> One,
   lateralTorsionalBracingLength |-> length,
   slendernessLimit |-> FromInt(200), momentModificationFactor |-> One]

\* bracing at 10 mm, at 100 mm and at 3 m
ParameterChoices == {Braced(Dec(1, 2)), Braced(Dec(1, 1)), Braced(FromInt(3))}

NoOutcome == [code |-> "", err |-> "", result |-> NoDesignResult]

\* what optimizeSection was called with and what it gave
NoOptimized ==
  [designCode |-> "", targetUtilization |-> Zero, err |-> "",
   checked |-> <<>>, sections |-> <<>>]

DesignCodeChoices == {"AISC360", "EC3"}

TargetChoices == {Dec(85, 2), Dec(5, 1)}

InitDesign ==
  design = [material |-> initializeDefaultMaterials.val[1],
            section |-> CHOOSE section \in DesignSections :
                          section.height = FromInt(240),
            forces |-> NoForces,
            parameters |-> Braced(FromInt(3)),
            outcome |-> NoOutcome,
            optimized |-> NoOptimized]

\* the caller takes other inputs; nothing has been checked with them
Chosen(d) ==
  /\ design' = [d EXCEPT !.outcome = NoOutcome, !.optimized = NoOptimized]
  /\ UNCHANGED <<femVars, store, requests, served, beam>>

ChooseMaterial == \E material \in DesignMaterials :
  Chosen([design EXCEPT !.material = material])

ChooseSection == \E section \in DesignSections :
  Chosen([design EXCEPT !.section = section])

ChooseForces == \E forces \in ForceChoices :
  Chosen([design EXCEPT !.forces = forces])

ChooseParameters == \E parameters \in ParameterChoices :
  Chosen([design EXCEPT !.parameters = parameters])

\* the factored tensile capacity 0.9 x Fy x A/100 as a caller works it out,
\* one operation after the other from the left
FactoredCapacity(material, section) ==
  FDiv(FMul(FMul(Dec(9, 1), material.yieldStrength), section.area), Hundred)

\* the caller loads the member in tension to its factored capacity
LoadToCapacity ==
  Chosen([design EXCEPT !.forces =
            [NoForces EXCEPT !.axial =
               FactoredCapacity(design.material, design.section)]])

\* the call of a check has given r; design holds what the last call gave
Checked(code, r) ==
  /\ design' = [design EXCEPT !.outcome =
                  [code |-> code, err |-> r.err, result |-> r.result],
                              !.optimized = NoOptimized]
  /\ UNCHANGED <<femVars, store, requests, served, beam>>

CheckAISC360 ==
  Checked("AISC360", checkAISC360("E1", design.material, design.section,
                                  design.forces, design.parameters))

CheckEurocode3 ==
  Checked("EC3", checkEurocode3("E1", design.material, design.section,
                                design.forces, design.parameters))

\* the call of optimizeSection has given r.  The checks it awaits keep no
\* state, so that nothing another caller does between them changes r
OptimizedWith(designCode, targetUtilization, r) ==
  /\ design' = [design EXCEPT !.optimized =
                  [designCode |-> designCode,
                   targetUtilization |-> targetUtilization,
                   err |-> r.err, checked |-> r.checked,
                   sections |-> r.sections],
                              !.outcome = NoOutcome]
  /\ UNCHANGED <<femVars, store, requests, served, beam>>

OptimizeSection ==
  \E designCode \in DesignCodeChoices, targetUtilization \in TargetChoices :
    OptimizedWith(designCode, targetUtilization,
                  optimizeSection("E1", designCode, design.material,
                                  design.forces, design.parameters,
                                  targetUtilization))


(***************************************************************************)
(* The beam calculation of the client, analyzeSimplySupportedBeam.          *)
(***************************************************************************)
\* x ** 3 as two multiplications
Cube(x) == FMul(FMul(x, x), x)

\* what one position has summed: shear, moment and displacement
NoSums == [shear |-> Zero, moment |-> Zero, displacement |-> Zero]

\* a point load P at a, b from the far end, with reaction R1, adds at x
PointSums(P, a, b, R1, length, EIL6, x, acc) ==
  IF FLt(x, a)
  THEN [shear |-> FAdd(acc.shear, R1),
        moment |-> FAdd(acc.moment, FMul(R1, x)),
        displacement |->
          FAdd(acc.displacement,
               FDiv(FMul(FMul(FMul(P, b), x),
                         FSub(FSub(FMul(length, length), FMul(b, b)),
                              FMul(x, x))),
                    EIL6))]
  ELSE [shear |-> FAdd(acc.shear, FSub(R1, P)),
        moment |-> FAdd(acc.moment,
                        FSub(FMul(R1, x), FMul(P, FSub(x, a)))),
        displacement |->
          FAdd(acc.displacement,
               FDiv(FMul(FMul(FMul(P, a), FSub(length, x)),
                         FSub(FSub(FMul(FMul(FromInt(2), length), x),
                                   FMul(x, x)),
                              FMul(a, a))),
                    EIL6))]

\* the point load P at a
PointAt(P, a, length, EIL6, x, acc) ==
  PointSums(P, a, FSub(length, a), FDiv(FMul(P, FSub(length, a)), length),
            length, EIL6, x, acc)

\* a distributed load w adds at x
DistributedSums(w, length, EI24, x, acc) ==
  [shear |-> FAdd(acc.shear,
                  FSub(FDiv(FMul(w, length), FromInt(2)), FMul(w, x))),
   moment |-> FAdd(acc.moment,
                   FSub(FDiv(FMul(FMul(w, length), x), FromInt(2)),
                        FDiv(FMul(FMul(w, x), x), FromInt(2)))),
   displacement |->
     FAdd(acc.displacement,
          FDiv(FMul(FMul(w, x),
                    FAdd(FSub(Cube(length),
                              FMul(FMul(FMul(FromInt(2), length), x), x)),
                         Cube(x))),
               EI24))]

\* what load adds at x; EIL6 is 6 * E * I * length and EI24 is 24 * E * I
LoadSums(load, length, EIL6, EI24, x, acc) ==
  IF load.type = "point"
  THEN PointAt(FMul(load.magnitude, Thousand),
               FMul(OrElse(load.position, Dec(5, 1)), length),
               length, EIL6, x, acc)
  ELSE IF load.type = "distributed"
  THEN DistributedSums(FMul(load.magnitude, Thousand), length, EI24, x,
                       acc)
  ELSE acc

RECURSIVE SumsFrom(_, _, _, _, _, _, _)
\* the sums at x after the loads from the k-th on
SumsFrom(loads, k, length, EIL6, EI24, x, acc) ==
  IF k > Len(loads) THEN acc
  ELSE SumsFrom(loads, k + 1, length, EIL6, EI24, x,
                LoadSums(loads[k], length, EIL6, EI24, x, acc))

RECURSIVE MaxAbsFrom(_, _, _)
\* Math.max over the absolute values from the k-th on
MaxAbsFrom(series, k, acc) ==
  IF k > Len(series) THEN acc
  ELSE MaxAbsFrom(series, k + 1, FMax(acc, FAbs(series[k])))

\* the results from the converted series
BeamResults(positions, momentskNm, shearskN, displacementsmm) ==
  [maxMoment |-> MaxAbsFrom(momentskNm, 1, NegInf),
   maxShear |-> MaxAbsFrom(shearskN, 1, NegInf),
   maxDisplacement |-> MaxAbsFrom(displacementsmm, 1, NegInf),
   moments |-> momentskNm, shears |-> shearskN,
   displacements |-> displacementsmm, positions |-> positions]

\* the results from the sums at the 21 positions
BeamFrom(positions, sums) ==
  BeamResults(positions,
              Array([i \in 1..21 |-> FDiv(sums[i].moment, Thousand)]),
              Array([i \in 1..21 |-> FDiv(sums[i].shear, Thousand)]),
              Array([i \in 1..21 |-> FMul(sums[i].displacement, Thousand)]))

\* the calculation over positions
BeamOver(positions, length, EIL6, EI24, loads) ==
  BeamFrom(positions,
           Array([i \in 1..21 |->
                    SumsFrom(loads, 1, length, EIL6, EI24, positions[i],
                             NoSums)]))

analyzeSimplySupportedBeam(input) ==
  BeamOver(Positions(input.length), input.length,
           FMul(FMul(FMul(FromInt(6), FMul(input.elasticModulus, Sci(1, 9))),
                     FMul(input.momentOfInertia, Dec(1, 8))),
                input.length),
           FMul(FMul(FromInt(24), FMul(input.elasticModulus, Sci(1, 9))),
                FMul(input.momentOfInertia, Dec(1, 8))),
           input.loads)

\* the loads a user of the calculator puts on one beam, at most
MaxBeamLoads == 1

\* a point load at mid-span by default, one at a quarter, a distributed load
BeamLoads ==
  {[type |-> "point", magnitude |-> FromInt(10), position |-> NaN],
   [type |-> "point", magnitude |-> FromInt(20), position |-> Dec(25, 2)],
   [type |-> "distributed", magnitude |-> FromInt(5), position |-> NaN]}

BeamLengths == {FromInt(6)}

BeamInputs ==
  {[length |-> length, elasticModulus |-> FromInt(210),
    momentOfInertia |-> FromInt(8356), loads |-> loads] :
     length \in BeamLengths,
     loads \in UNION {[1..n -> BeamLoads] : n \in 0..MaxBeamLoads}}

NoBeam == [input |-> <<>>, results |-> <<>>]

InitBeam == beam = NoBeam

\* the user of the calculator enters a beam
EnterBeam ==
  \E input \in BeamInputs :
    /\ beam' = [input |-> input, results |-> <<>>]
    /\ UNCHANGED <<femVars, store, requests, served, design>>

\* the calculator shows the results of the beam entered
AnalyzeBeam ==
  /\ beam.input # <<>>
  /\ beam' = [beam EXCEPT !.results = analyzeSimplySupportedBeam(beam.input)]
  /\ UNCHANGED <<femVars, store, requests, served, design>>

Init == InitFEM /\ InitStore /\ InitDesign /\ InitBeam

\* a caller that builds, edits and runs static analyses
NextStatic ==
  \/ BuildCantilever
  \/ AddNode
  \/ AddElement
  \/ AddLoad
  \/ AddLoadCase
  \/ AddLoadCombination
  \/ AnalyzeStatic

SpecStatic == Init /\ [][NextStatic]_vars

\* a caller that builds the frame, edits it and runs static analyses
NextFrame ==
  \/ BuildFrame
  \/ AddNode
  \/ AddElement
  \/ AddLoad
  \/ AddLoadCase
  \/ AddLoadCombination
  \/ AnalyzeStatic

SpecFrame == Init /\ [][NextFrame]_vars

\* callers that run static, buckling and dynamic analyses on one engine and
\* re-register a combination in between
NextModes ==
  \/ BuildCantilever
  \/ AddLoadCombination
  \/ AnalyzeStatic
  \/ AnalyzeBuckling
  \/ AnalyzeDynamic
  \/ Resume

SpecModes == Init /\ [][NextModes]_vars

\* clients that post elements and loads and ask for analyses
NextStore ==
  \/ PostElement
  \/ PutElement
  \/ PostLoad
  \/ PostAnalyze
  \/ GotElements
  \/ GotLoads
  \/ GotSupports
  \/ Deleted
  \/ StoreResult
  \/ Respond

SpecStore == Init /\ [][NextStore]_vars

\* clients whose analyze requests can reach the server together
NextOverlap ==
  \/ PostElement
  \/ PostLoad
  \/ PostAnalyze
  \/ PostAnalyzeTogether
  \/ GotElements
  \/ GotLoads
  \/ GotSupports
  \/ Deleted
  \/ StoreResult
  \/ Respond

SpecOverlap == Init /\ [][NextOverlap]_vars

\* callers that create, update and delete projects and elements
NextIdentity ==
  \/ CreateProject
  \/ UpdateProject
  \/ DeleteProject
  \/ CreateElement
  \/ UpdateElement
  \/ DeleteElement

SpecIdentity == Init /\ [][NextIdentity]_vars

\* clients of two projects that analyse them again and again
NextIsolation ==
  \/ PostElement
  \/ PostLoad
  \/ PostAnalyzeAgain
  \/ GotElements
  \/ GotLoads
  \/ GotSupports
  \/ Deleted
  \/ StoreResult
  \/ Respond

SpecIsolation == Init /\ [][NextIsolation]_vars

\* a caller of the design checks
NextDesign ==
  \/ ChooseMaterial
  \/ ChooseSection
  \/ ChooseForces
  \/ ChooseParameters
  \/ LoadToCapacity
  \/ CheckAISC360
  \/ CheckEurocode3
  \/ OptimizeSection

SpecDesign == Init /\ [][NextDesign]_vars

\* a client that posts elements and loads, asks for analyses and uses the
\* beam calculator
NextSeries ==
  \/ PostElement
  \/ PostLoad
  \/ PostAnalyze
  \/ GotElements
  \/ GotLoads
  \/ GotSupports
  \/ Deleted
  \/ StoreResult
  \/ Respond
  \/ EnterBeam
  \/ AnalyzeBeam

SpecSeries == Init /\ [][NextSeries]_vars

(***************************************************************************)
(* Properties of analyzeStatic.                                             *)
(***************************************************************************)
NotFound == "Load combination not found"

\* the last run got past the lookup of its combination
Registered(c) == Has(c.entry.loadCombinations, c.comb)

\* the rows of [K | F] after forward elimination
Eliminated(eng) == ForwardFrom(Augmented(eng), eng.totalDOFs, 1)

\* elimination of the system of eng meets a pivot that is zero
ZeroPivot(eng) ==
  \E i \in 1..eng.totalDOFs : IsZero(Eliminated(eng)[i][i])

AllFree(eng) ==
  \A id \in KeySet(eng.nodes) :
    \A i \in 1..6 : ~Get(eng.nodes, id).restraints[i]

\* the last run solved a system without any restraint, which has a zero pivot
SingularRun ==
  /\ call.n > 0
  /\ call.trace # <<>>
  /\ call.err # "TypeError"
  /\ engine.totalDOFs > 0
  /\ AllFree(call.entry)
  /\ ZeroPivot(engine)

\* C2: a model without any restraint, whose elimination meets a zero pivot,
\* makes analyzeStatic fail with a SingularSystemError and return no result.
C2_SingularSystemFails ==
  SingularRun => call.err = "SingularSystemError" /\ call.results = NoResults

RECURSIVE AppliedFrom(_, _, _, _, _)
\* the sum, added to acc, of the factored nodal loads of eng in direction
\* number i, from the k-th load on
AppliedFrom(eng, loadCombination, i, k, acc) ==
  IF k > Len(eng.loads.keys) THEN acc
  ELSE LET load == Get(eng.loads, eng.loads.keys[k])
       IN IF load.nodeId # ""
               /\ IndexOf(<<"x", "y", "z", "mx", "my", "mz">>, load.direction) = i - 1
          THEN AppliedFrom(eng, loadCombination, i, k + 1,
                           FAdd(acc, FMul(load.magnitude,
                                          FactorOf(loadCombination, load))))
          ELSE AppliedFrom(eng, loadCombination, i, k + 1, acc)

RECURSIVE ReactionsFrom(_, _, _, _)
\* the sum, added to acc, of the reactions in direction number i, from the
\* k-th node on
ReactionsFrom(reactions, i, k, acc) ==
  IF k > Len(reactions.keys) THEN acc
  ELSE ReactionsFrom(reactions, i, k + 1,
                     FAdd(acc, Get(reactions, reactions.keys[k])[i]))

\* the sum of loads and reactions the last run leaves in direction number i
Unbalanced(i) ==
  FAdd(AppliedFrom(call.entry, Get(call.entry.loadCombinations, call.comb),
                   i, 1, Zero),
       ReactionsFrom(call.results.reactions, i, 1, Zero))

Tolerance == Dec(1, 6)

\* elimination of the system of eng meets only finite pivots other than zero
NoRigidBodyModes(eng) ==
  \A i \in 1..eng.totalDOFs :
    IsFinite(Eliminated(eng)[i][i]) /\ ~IsZero(Eliminated(eng)[i][i])

\* C3: after a successful run on a model without rigid-body modes, the applied
\* factored nodal loads and the returned reactions sum to zero in each of the
\* six components.
C3_GlobalEquilibrium ==
  (call.n > 0 /\ call.err = "" /\ NoRigidBodyModes(engine))
    => \A i \in 1..6 : FLe(FAbs(Unbalanced(i)), Tolerance)

\* the last run gave what the run r gives, and left the engine as r leaves it
LastRunIs(r) ==
  /\ call.err = r.err
  /\ call.results = r.results
  /\ call.fresh => engine = r.eng

\* C4: a run with an unregistered combination id fails with the not-found
\* error and leaves model and workspace as they were, and the next run with a
\* registered id gives what it would have given without the failed run.
C4_UnknownCombinationConfined ==
  /\ (call.n > 0 /\ ~Registered(call))
       => /\ call.err = NotFound
          /\ call.results = NoResults
          /\ call.fresh => engine = call.entry
  /\ (call.n > 1 /\ Registered(call) /\ call.prev.fresh /\ call.prev.err = NotFound)
       => LastRunIs(analyzeStatic(call.prev.entry, call.comb))

\* a run succeeded, a run with an unregistered id failed, the next succeeded
C4_Witness ==
  /\ call.n > 2
  /\ call.err = ""
  /\ call.prev.fresh
  /\ call.prev.err = NotFound
  /\ call.prev.entry.totalDOFs > 0
  /\ ~IsZero(Get(call.results.displacements, "N2")[2])

\* C5: two runs with the same combination id and no model change in between
\* give the same outcome: the same error or the same displacements, forces,
\* stresses and reactions.
C5_Deterministic ==
  (call.n > 1 /\ call.prev.fresh /\ call.prev.comb = call.comb)
    => call.err = call.prev.err /\ call.results = call.prev.results

C5_Witness ==
  /\ call.n > 1
  /\ call.prev.fresh
  /\ call.prev.comb = call.comb
  /\ call.err = ""
  /\ IsFinite(Get(call.results.displacements, "N2")[2])
  /\ ~IsZero(Get(call.results.displacements, "N2")[2])

Phases == <<"Unbuilt", "Assembled", "Solved", "ResultsExtracted">>

\* C6: a successful run goes through Unbuilt, Assembled, Solved and
\* ResultsExtracted in that order, and its results and the workspace it leaves
\* are those of a run on the same model in an engine whose workspace has never
\* been used.
C6_RebuiltFromModel ==
  (call.n > 0 /\ call.err = "")
    => /\ call.trace = Phases
       /\ LastRunIs(analyzeStatic(Fresh(call.entry), call.comb))

\* a successful run on a workspace an earlier run has used for another model
C6_Witness ==
  /\ call.n > 1
  /\ call.err = ""
  /\ call.prev.err = ""
  /\ call.entry.totalDOFs > 0
  /\ call.entry.dofMap # engine.dofMap
  /\ call.entry.K # engine.K
  /\ call.entry.F # engine.F

\* some element of eng joins a node to itself or to a node at the same place
HasZeroLength(eng) ==
  \E id \in KeySet(eng.elements) :
    /\ ~StiffnessThrows(eng, Get(eng.elements, id))
    /\ IsZero(calculateElementLength(eng, Get(eng.elements, id)))

\* C8: a model with an element of length 0 makes analyzeStatic fail with a
\* DegenerateElementError and return no result.
C8_DegenerateElementFails ==
  (call.n > 0 /\ Registered(call) /\ HasZeroLength(call.entry))
    => call.err = "DegenerateElementError" /\ call.results = NoResults

\* some element of eng names a node, material or section that is not there
HasDanglingReference(eng) ==
  \E id \in KeySet(eng.elements) : StiffnessThrows(eng, Get(eng.elements, id))

NothingAssembled(K) ==
  \A p \in 1..Len(K) : \A q \in 1..Len(K) : IsZero(K[p][q])

\* C9: a model with an element naming a missing node, material or section
\* makes analyzeStatic fail with an UnknownReferenceError before any element
\* contribution has been added to K.
C9_UnknownReferenceBeforeAssembly ==
  (call.n > 0 /\ Registered(call) /\ HasDanglingReference(call.entry))
    => call.err = "UnknownReferenceError" /\ NothingAssembled(engine.K)

(***************************************************************************)
(* Properties of analyzeBuckling and analyzeDynamic.                        *)
(***************************************************************************)
\* what analyzeStatic(id) gives in an engine that holds the model of eng and
\* has run nothing else
Alone(eng, id) == analyzeStatic(Fresh(eng), id)

\* the modes are numbered from 1 and each has the displacements as its shape
ModesOf(modes, numModes, displacements) ==
  /\ Len(modes) = numModes
  /\ \A i \in 1..Len(modes) :
       modes[i].mode = i /\ modes[i].shape = displacements

\* the invocation that gave err and results gave what the run r gives
Gave(err, results, r) == err = r.err /\ results = r.results

\* the ended invocation gave what the run r gives, with r's displacements as
\* the shape of every mode
EndedWith(r) ==
  /\ Gave(returned.err, returned.results, r)
  /\ returned.err = ""
       => ModesOf(returned.modes, Len(returned.modes), r.results.displacements)

\* C7: whatever other invocations run between the start of an analyzeStatic,
\* analyzeBuckling or analyzeDynamic invocation and its end, it gives what it
\* gives when it runs alone on the model it was started on.
C7_InvocationsRunAlone ==
  /\ call.n > 0 => Gave(call.err, call.results, Alone(call.entry, call.comb))
  /\ \A k \in 1..Len(pending) :
       Gave(pending[k].err, pending[k].staticResults,
            Alone(pending[k].entry, pending[k].comb))
  /\ returned.n > 0 => EndedWith(Alone(returned.entry, returned.comb))

\* a buckling or dynamic analysis has ended after another invocation ran
\* during its await and left other displacements in the workspace
C7_Witness ==
  /\ returned.n > 0
  /\ returned.err = ""
  /\ returned.overtaken
  /\ returned.modes # <<>>
  /\ returned.live # Alone(returned.entry, returned.comb).eng.U

(***************************************************************************)
(* Properties of the analyze request.                                       *)
(***************************************************************************)
\* the element ids of the elements of project p, in store order
ElementIdsOf(st, p) ==
  Array([i \in 1..Len(getElementsByProjectId(st, p)) |->
           getElementsByProjectId(st, p)[i].elementId])

\* the stored results are one for each element, in the order of the elements
OnePerElement(stored, elementIds) ==
  /\ Len(stored) = Len(elementIds)
  /\ \A i \in 1..Len(stored) : stored[i].elementId = elementIds[i]

\* project p was analysed twice in sequence with no change of its model in
\* between or since, and no request is under way
AnalysedTwice(p) ==
  requests = <<>> /\ served[p].n > 1 /\ served[p].repeat /\ served[p].fresh

\* C1: after a project has been analysed twice in sequence on an unchanged
\* model, the store holds exactly one result for each element of the project,
\* and these are the results it held after the first run (the ids the store
\* gives its records apart), not those of both runs.
C1_AnalyzeReplacesResults ==
  \A p \in Projects :
    AnalysedTwice(p)
      => /\ OnePerElement(StoredFor(store, p), ElementIdsOf(store, p))
         /\ StoredFor(store, p) = served[p].before

\* project 1 has two elements, one of them loaded, and was analysed twice in
\* sequence
C1_Witness ==
  /\ AnalysedTwice(1)
  /\ Len(getElementsByProjectId(store, 1)) = 2
  /\ \E i \in 1..Len(served[1].before) : IsFinite(served[1].before[i].maxMoment)

(***************************************************************************)
(* Properties of the design checks.                                         *)
(***************************************************************************)
\* C10: for every well-formed material, section, forces and parameters,
\* checkAISC360 and checkEurocode3 throw nothing and return an
\* ElementDesignResult of their design code, in every branch of the flexural
\* check, the elastic lateral-torsional-buckling branch (Lb > Lr with a
\* major-axis moment) included.
C10_DesignChecksReturn ==
  design.outcome.code # ""
    => /\ design.outcome.err = ""
       /\ design.outcome.result.designCode = design.outcome.code

\* a check has returned a result
Returned == design.outcome.code # "" /\ design.outcome.err = ""

\* the checks of the result that was returned
ChecksReturned == design.outcome.result.checks

\* the status of every one of checks is FAIL if its ratio is greater than
\* 1.0 and PASS otherwise
StatusFollowsRatio(checks) ==
  \A k \in 1..Len(checks) :
    checks[k].status = IF FGt(checks[k].ratio, One) THEN "FAIL" ELSE "PASS"

\* the results that the checks optimizeSection ran have returned
ResultsChecked ==
  SelectSeq(design.optimized.checked, LAMBDA r : r.err = "")

\* C11: every check of a result of checkAISC360 or checkEurocode3, called
\* by the caller or by optimizeSection, has status FAIL if its ratio is
\* greater than 1.0 and status PASS otherwise; none has status WARNING.
C11_StatusFromRatio ==
  /\ Returned => StatusFollowsRatio(ChecksReturned)
  /\ \A k \in 1..Len(ResultsChecked) :
       StatusFollowsRatio(ResultsChecked[k].result.checks)

\* optimizeSection has returned its sections
Ranked == design.optimized.designCode # "" /\ design.optimized.err = ""

\* the candidate a returned section was made from
CandidateOf(section) ==
  CHOOSE k \in 1..Len(availableSections) : availableSections[k] = section.section

\* |targetUtilization / overallRatio - 1| of a returned section
Deviation(section) ==
  FAbs(FSub(FDiv(design.optimized.targetUtilization, section.utilization), One))

\* the checks of the candidates are those of the design code, one for each
\* candidate in list order
CheckedInOrder(checked) ==
  /\ Len(checked) = Len(availableSections)
  /\ \A k \in 1..Len(checked) :
       checked[k] = CandidateResult("E1", design.optimized.designCode,
                                    design.material, availableSections[k],
                                    design.forces, design.parameters)

\* the returned sections are the candidates that pass, each once, with the
\* overall ratio of its check
OnlyPassing(sections, checked) ==
  /\ \A i \in 1..Len(sections) :
       /\ checked[CandidateOf(sections[i])].result.overallStatus = "PASS"
       /\ FLe(checked[CandidateOf(sections[i])].result.overallRatio, One)
       /\ sections[i].utilization
            = checked[CandidateOf(sections[i])].result.overallRatio
  /\ \A k \in 1..Len(checked) :
       IsSuitable(checked[k].result)
         => \E i \in 1..Len(sections) : sections[i].section = availableSections[k]
  /\ \A i, j \in 1..Len(sections) :
       sections[i].section = sections[j].section => i = j

\* C14: optimizeSection runs the design check for each candidate in list
\* order, returns only the candidates whose overall status is PASS and whose
\* overall ratio is not above 1.0, and returns them ordered by non-decreasing
\* |targetUtilization / overallRatio - 1|.
C14_OptimizeSectionRanks ==
  Ranked
    => /\ CheckedInOrder(design.optimized.checked)
       /\ OnlyPassing(design.optimized.sections, design.optimized.checked)
       /\ \A i \in 1..Len(design.optimized.sections) - 1 :
            FLe(Deviation(design.optimized.sections[i]),
                Deviation(design.optimized.sections[i + 1]))

\* optimizeSection has returned some candidates and left out others, in
\* another order than that of its list
C14_Witness ==
  /\ Ranked
  /\ Len(design.optimized.sections) > 1
  /\ Len(design.optimized.sections) < Len(availableSections)
  /\ CandidateOf(design.optimized.sections[1])
       > CandidateOf(design.optimized.sections[2])
  /\ FLt(Deviation(design.optimized.sections[1]),
         Deviation(design.optimized.sections[2]))

\* overallRatio is the maximum of the ratios of the checks, which is
\* -Infinity when there are none
IsMaximum(overallRatio, checks) ==
  /\ \A k \in 1..Len(checks) : ~ FGt(checks[k].ratio, overallRatio)
  /\ IF checks = <<>> THEN overallRatio = NegInf
     ELSE \E k \in 1..Len(checks) : checks[k].ratio = overallRatio

\* the overall ratio and status of result are those of its checks
Assessed(result) ==
  /\ IsMaximum(result.overallRatio, result.checks)
  /\ result.overallStatus =
       IF \E k \in 1..Len(result.checks) : result.checks[k].status = "FAIL"
       THEN "FAIL" ELSE "PASS"

\* C12: in every ElementDesignResult, returned to the caller or to
\* optimizeSection, overallRatio is the maximum of the ratios of the checks
\* and overallStatus is FAIL if at least one check has status FAIL and PASS
\* otherwise.
C12_OverallFromChecks ==
  /\ Returned => Assessed(design.outcome.result)
  /\ \A k \in 1..Len(ResultsChecked) : Assessed(ResultsChecked[k].result)

\* a result whose checks pass but for one, with the greatest ratio in a
\* check that is not the last
C12_Witness ==
  /\ Returned
  /\ Len(ChecksReturned) > 2
  /\ design.outcome.result.overallStatus = "FAIL"
  /\ ChecksReturned[Len(ChecksReturned)].status = "PASS"
  /\ FLt(ChecksReturned[Len(ChecksReturned)].ratio,
         design.outcome.result.overallRatio)


\* the member is in tension at 0.9 x Fy x A/100 and AISC 360 has checked it
CheckedAtCapacity ==
  /\ Returned
  /\ design.outcome.code = "AISC360"
  /\ design.forces.axial = FactoredCapacity(design.material, design.section)

\* C13: for every material and section, when the axial force equals
\* 0.9 x Fy x A/100, the Tensile Yielding check of checkAISC360 has ratio
\* exactly 1.0 and status PASS
C13_TensileYieldingBoundary ==
  CheckedAtCapacity
    => /\ Len(ChecksReturned) >= 1
       /\ ChecksReturned[1].checkType = "Tensile Yielding"
       /\ ChecksReturned[1].ratio = One
       /\ ChecksReturned[1].status = "PASS"

(***************************************************************************)
(* Properties of the element lengths.                                       *)
(***************************************************************************)
\* the Euclidean distance between the two end positions of element
Distance(element) ==
  FSqrt(FAdd(Square(FSub(element.endX, element.startX)),
             Square(FSub(element.endY, element.startY))))

\* runStructuralAnalysis has run for the head request
Analysed == At("analysis") \/ At("create")

\* the length the analysis has computed with for its k-th element: the last
\* of the positions, (20 / 20) * length
LengthUsed(k) == Head(requests).results[k].resultsData.positions[21]

\* C15: after any sequence of element create and update operations, the
\* length the analysis uses for an element is the Euclidean distance between
\* its two end positions, never an independently stored or edited length
C15_LengthIsDistance ==
  Analysed
    => \A k \in 1..Len(Head(requests).elements) :
         LengthUsed(k) = Distance(Head(requests).elements[k])

(***************************************************************************)
(* Properties of the series of a result.                                    *)
(***************************************************************************)
\* the series of data are 21 positions from 0 to L, rising when L > 0, each
\* i-th of them (i / 20) * L, and 21 values of each kind
SampledAlong(data, L) ==
  /\ Len(data.positions) = 21
  /\ Len(data.moments) = 21
  /\ Len(data.shears) = 21
  /\ Len(data.displacements) = 21
  /\ data.positions[1] = Zero
  /\ data.positions[21] = L
  /\ FGt(L, Zero)
       => \A i \in 1..20 : FLt(data.positions[i], data.positions[i + 1])
  /\ \A i \in 1..21 :
       data.positions[i] = FMul(FDiv(FromInt(i - 1), FromInt(20)), L)

\* the 21 positions of data are i * L / 20 as the division of i * L by 20
ScaledAlong(data, L) ==
  /\ Len(data.positions) = 21
  /\ \A i \in 1..21 :
       data.positions[i] = FDiv(FMul(FromInt(i - 1), L), FromInt(20))

\* the calculator has shown the results of a beam
BeamShown == beam.results # <<>>

\* C16 as the code has it: every result of an analysis, on the server and in
\* the client's calculator, has 21 positions rising from 0 to the length L of
\* its element, the i-th being (i / 20) * L, positions[0] = 0 and
\* positions[20] = L, and 21 moments, shears and displacements
C16_SeriesSampled ==
  /\ Analysed
       => \A k \in 1..Len(Head(requests).results) :
            SampledAlong(Head(requests).results[k].resultsData,
                         Head(requests).elements[k].length)
  /\ BeamShown => SampledAlong(beam.results, beam.input.length)

\* C16 as stated: every result has 21 positions that are exactly i * L / 20
C16_PositionsScaled ==
  /\ Analysed
       => \A k \in 1..Len(Head(requests).results) :
            ScaledAlong(Head(requests).results[k].resultsData,
                        Head(requests).elements[k].length)
  /\ BeamShown => ScaledAlong(beam.results, beam.input.length)

\* an analysis has given the results of two elements, one of them loaded, and
\* the calculator those of a loaded beam
C16_Witness ==
  /\ Analysed
  /\ Len(Head(requests).results) = 2
  /\ \E k \in 1..2 :
       /\ IsFinite(Head(requests).results[k].maxMoment)
       /\ FGt(Head(requests).results[k].maxMoment, Zero)
  /\ BeamShown
  /\ IsFinite(beam.results.maxMoment)
  /\ FGt(beam.results.maxMoment, Zero)

(***************************************************************************)
(* Properties of the workspace of a run.                                    *)
(***************************************************************************)
\* the last run has got past setupDOFMapping and the model is as it saw it
Mapped == call.n > 0 /\ call.fresh /\ call.err # NotFound

\* the (node, component) pairs of the model, nodes by their place of insertion
Pairs == (1..Len(engine.nodes.keys)) \X (1..6)

IsRestrained(p) == Get(engine.nodes, engine.nodes.keys[p[1]]).restraints[p[2]]

FreePairs == {p \in Pairs : ~IsRestrained(p)}

\* the entry of the DOF map for the pair p
DofOf(p) == Get(engine.dofMap, engine.nodes.keys[p[1]])[p[2]]

\* p comes before q in node insertion order and, within a node, by component
Before(p, q) == p[1] < q[1] \/ (p[1] = q[1] /\ p[2] < q[2])

\* C17: after setupDOFMapping every restrained (node, component) maps to -1,
\* the free pairs map one-to-one onto 0..n-1 with n = totalDOFs the number of
\* free pairs, and the numbers rise in node insertion order and, within a
\* node, in component order
C17_DofMap ==
  Mapped
    => /\ KeySet(engine.dofMap) = KeySet(engine.nodes)
       /\ \A p \in Pairs : IsRestrained(p) => DofOf(p) = -1
       /\ engine.totalDOFs = Cardinality(FreePairs)
       /\ {DofOf(p) : p \in FreePairs} = 0..(engine.totalDOFs - 1)
       /\ \A p, q \in FreePairs : Before(p, q) => DofOf(p) < DofOf(q)

\* a run has mapped a model with a fully restrained node and a node that has
\* free components after restrained ones
C17_Witness ==
  /\ Mapped
  /\ \E p \in Pairs : \A c \in 1..6 : IsRestrained(<<p[1], c>>)
  /\ \E p, q \in Pairs :
       /\ p[1] = q[1] /\ p[2] < q[2]
       /\ IsRestrained(p) /\ ~IsRestrained(q)
       /\ DofOf(q) > 0

\* buildGlobalStiffnessMatrix has returned in the last run and the model is
\* as the run saw it
Built ==
  /\ Mapped
  /\ \A id \in KeySet(engine.elements) :
       ~StiffnessThrows(engine, Get(engine.elements, id))

\* the elements of the model in their order of insertion
ElementAt(e) == Get(engine.elements, engine.elements.keys[e])

\* the DOFs of the twelve local indices of the e-th element
LocalDofs(e) ==
  Get(engine.dofMap, ElementAt(e).startNodeId)
    \o Get(engine.dofMap, ElementAt(e).endNodeId)

RECURSIVE SumCols(_, _, _, _, _, _)
\* acc and the ke[i][j] of the columns from j on whose DOF is q
SumCols(acc, ke, dofs, i, q, j) ==
  IF j > 12 THEN acc
  ELSE SumCols(IF dofs[j] = q THEN FAdd(acc, ke[i][j]) ELSE acc,
               ke, dofs, i, q, j + 1)

RECURSIVE SumRows(_, _, _, _, _, _)
\* acc and the ke[i][j] of the rows from i on whose DOFs are (p, q)
SumRows(acc, ke, dofs, p, q, i) ==
  IF i > 12 THEN acc
  ELSE SumRows(IF dofs[i] = p THEN SumCols(acc, ke, dofs, i, q, 1) ELSE acc,
               ke, dofs, p, q, i + 1)

RECURSIVE SumElements(_, _, _, _, _, _)
\* acc and the entries of the elements from e on whose DOFs are (p, q)
SumElements(acc, kes, dofs, p, q, e) ==
  IF e > Len(kes) THEN acc
  ELSE SumElements(SumRows(acc, kes[e], dofs[e], p, q, 1),
                   kes, dofs, p, q, e + 1)

\* the n x n matrix of the sums of the element entries
Superposed(kes, dofs, n) ==
  Array([p \in 1..n |-> Array([q \in 1..n |->
     SumElements(Zero, kes, dofs, p - 1, q - 1, 1)])])

\* C18: after buildGlobalStiffnessMatrix K is n x n for n the number of free
\* DOFs, and K[p][q] is the sum over all elements and all local (i, j) whose
\* DOFs are (p, q) of ke[i][j]; entries with a restrained row or column are
\* added nowhere
C18_AssemblyByOmission ==
  Built
    => /\ Len(engine.K) = Cardinality(FreePairs)
       /\ engine.K =
            Superposed(
              Array([e \in 1..Len(engine.elements.keys) |->
                       calculateElementStiffnessMatrix(engine, ElementAt(e))]),
              Array([e \in 1..Len(engine.elements.keys) |-> LocalDofs(e)]),
              Cardinality(FreePairs))

\* two elements, each with restrained and free DOFs, add up in an entry of K
\* that is not the entry of the first alone
C18_Witness ==
  /\ Built
  /\ Len(engine.elements.keys) = 2
  /\ \A e \in 1..2 : -1 \in {LocalDofs(e)[i] : i \in 1..12}
  /\ \A e \in 1..2 : \E i \in 1..12 : LocalDofs(e)[i] >= 0
  /\ IsFinite(engine.K[1][1])
  /\ engine.K[1][1] #
       SumElements(Zero,
                   <<calculateElementStiffnessMatrix(engine, ElementAt(1))>>,
                   <<LocalDofs(1)>>, 0, 0, 1)

(***************************************************************************)
(* Properties of the reactions.                                             *)
(***************************************************************************)
\* the last run has returned results and the model is as the run saw it
Solved == call.n > 0 /\ call.fresh /\ call.err = ""

\* the node of the pair p
NodeOf(p) == engine.nodes.keys[p[1]]

\* the end-forces the run returned for element id at the pair p: the
\* component of the start node, of the end node, or both
EndForcesAt(id, p) ==
  {Get(call.results.forces, id)[p[2]] :
     n \in {Get(engine.elements, id).startNodeId} \cap {NodeOf(p)}}
  \cup {Get(call.results.forces, id)[6 + p[2]] :
          n \in {Get(engine.elements, id).endNodeId} \cap {NodeOf(p)}}

\* some element carries an end-force other than zero at the pair p
Carries(p) ==
  \E id \in KeySet(engine.elements) :
    \E f \in EndForcesAt(id, p) : IsFinite(f) /\ ~IsZero(f)

\* C19: the reaction analyzeStatic returns at a restrained DOF is the sum of
\* the end-forces of the elements attached there and the applied load; in
\* particular a restrained DOF that carries an end-force other than zero has
\* a reaction other than zero
C19_ReactionsRecovered ==
  Solved
    => \A p \in Pairs :
         (IsRestrained(p) /\ Carries(p))
           => ~IsZero(Get(call.results.reactions, NodeOf(p))[p[2]])

(***************************************************************************)
(* Properties of the load vector.                                           *)
(***************************************************************************)
\* the combination of the last run
Combined == Get(engine.loadCombinations, call.comb)

\* the loads of the model in their order of insertion
LoadAt(i) == Get(engine.loads, engine.loads.keys[i])

\* the load case of the i-th load has a factor in the combination
Factored(i) == LoadAt(i).loadCase \in DOMAIN Combined.factors

\* the DOFs the i-th load targets, in the order it is added to them: that of
\* its node and direction, or those of both ends of its element
TargetsOf(i) ==
  IF LoadAt(i).nodeId # ""
  THEN <<Get(engine.dofMap, LoadAt(i).nodeId)[
           IndexOf(<<"x", "y", "z", "mx", "my", "mz">>, LoadAt(i).direction) + 1]>>
  ELSE <<Get(engine.dofMap, Get(engine.elements, LoadAt(i).elementId).startNodeId)[
           IndexOf(<<"x", "y", "z">>, LoadAt(i).direction) + 1],
         Get(engine.dofMap, Get(engine.elements, LoadAt(i).elementId).endNodeId)[
           IndexOf(<<"x", "y", "z">>, LoadAt(i).direction) + 1]>>

\* what the i-th load adds to each of its targets
ShareOf(i) ==
  IF LoadAt(i).nodeId # ""
  THEN FMul(LoadAt(i).magnitude, Combined.factors[LoadAt(i).loadCase])
  ELSE FDiv(FMul(FMul(LoadAt(i).magnitude,
                      calculateElementLength(engine,
                        Get(engine.elements, LoadAt(i).elementId))),
                 Combined.factors[LoadAt(i).loadCase]),
            FromInt(2))

RECURSIVE AddShares(_, _, _, _, _)
\* acc and share for each of the targets from t on that is the DOF d
AddShares(acc, targets, share, d, t) ==
  IF t > Len(targets) THEN acc
  ELSE AddShares(IF targets[t] = d THEN FAdd(acc, share) ELSE acc,
                 targets, share, d, t + 1)

RECURSIVE SumLoads(_, _, _)
\* acc and what the factored loads from the i-th on add at the DOF d
SumLoads(acc, d, i) ==
  IF i > Len(engine.loads.keys) THEN acc
  ELSE SumLoads(IF Factored(i)
                THEN AddShares(acc, TargetsOf(i), ShareOf(i), d, 1)
                ELSE acc,
                d, i + 1)

\* C20: after applyLoads F holds, at every free DOF, the sum of what the
\* loads add whose load case has a factor in the combination; a load whose
\* load case has none adds 0, and nothing of the F of an earlier run remains
C20_LoadVectorRebuilt ==
  Solved
    => /\ Len(engine.F) = engine.totalDOFs
       /\ \A d \in 1..engine.totalDOFs :
            engine.F[d] = SumLoads(Zero, d - 1, 1)

\* a run found the F of an earlier combination in the workspace, with an
\* entry other than zero, and solved a combination that has no factor for
\* the load case of a load on a free DOF
C20_Witness ==
  /\ Solved
  /\ call.n > 1
  /\ call.prev.err = ""
  /\ Len(call.entry.F) = Len(engine.F)
  /\ \E d \in 1..Len(engine.F) :
       ~IsZero(call.entry.F[d]) /\ call.entry.F[d] # engine.F[d]
  /\ \E i \in 1..Len(engine.loads.keys) :
       ~Factored(i) /\ \E t \in 1..Len(TargetsOf(i)) : TargetsOf(i)[t] >= 0

(***************************************************************************)
(* Properties of the application of one load.                               *)
(***************************************************************************)
\* the nodal loads of the model whose node the DOF map has
NodalLoads ==
  {i \in 1..Len(engine.loads.keys) :
     LoadAt(i).nodeId # "" /\ Has(engine.dofMap, LoadAt(i).nodeId)}

\* the component 0..5 of a direction
ComponentOf(direction) ==
  CHOOSE c \in 0..5 : <<"x", "y", "z", "mx", "my", "mz">>[c + 1] = direction

\* the DOF of the node and direction of the i-th load
TargetOf(i) ==
  Get(engine.dofMap, LoadAt(i).nodeId)[ComponentOf(LoadAt(i).direction) + 1]

\* the factor applyLoads has for the i-th load: that of its load case in the
\* combination, 0 when the combination has none
CombinationFactor(i) ==
  IF Factored(i) THEN Combined.factors[LoadAt(i).loadCase] ELSE Zero

\* after is F with v added at the DOF d when d is free, and F otherwise
AddedAtOne(F, after, d, v) ==
  /\ Len(after) = Len(F)
  /\ \A k \in 1..Len(F) :
       after[k] = IF k = d + 1 THEN FAdd(F[k], v) ELSE F[k]

\* C21: a nodal load adds magnitude x factor to exactly one entry of F, the
\* free DOF of its node for its direction, and leaves every other entry as
\* it was; a nodal load on a restrained DOF changes no entry
C21_NodalLoadAddsOnce ==
  Solved
    => \A i \in NodalLoads :
         AddedAtOne(engine.F,
                    applyNodalLoad(engine, LoadAt(i),
                                   FactorOf(Combined, LoadAt(i))).F,
                    TargetOf(i),
                    FMul(LoadAt(i).magnitude, CombinationFactor(i)))

\* a run has applied a nodal load on a free DOF and one on a restrained DOF,
\* with a factor other than 1
C21_Witness ==
  /\ Solved
  /\ \E i, j \in NodalLoads :
       /\ TargetOf(i) >= 0 /\ TargetOf(j) = -1
       /\ ~IsZero(LoadAt(i).magnitude) /\ ~IsZero(LoadAt(j).magnitude)
       /\ Factored(i) /\ Factored(j)
       /\ Combined.factors[LoadAt(i).loadCase] # FromInt(1)
       /\ ~IsZero(engine.F[TargetOf(i) + 1])

\* the distributed loads of the model on an element whose ends are mapped
ElementLoads ==
  {i \in 1..Len(engine.loads.keys) :
     /\ LoadAt(i).nodeId = "" /\ LoadAt(i).type = "distributed"
     /\ Has(engine.elements, LoadAt(i).elementId)
     /\ ~StiffnessThrows(engine, Get(engine.elements, LoadAt(i).elementId))}

\* the DOF for the direction of the i-th load at the start and at the end
\* of its element
StartTargetOf(i) ==
  Get(engine.dofMap, Get(engine.elements, LoadAt(i).elementId).startNodeId)[
    ComponentOf(LoadAt(i).direction) + 1]

EndTargetOf(i) ==
  Get(engine.dofMap, Get(engine.elements, LoadAt(i).elementId).endNodeId)[
    ComponentOf(LoadAt(i).direction) + 1]

\* magnitude x elementLength x factor of the i-th load
TotalLoadOf(i) ==
  FMul(FMul(LoadAt(i).magnitude,
            calculateElementLength(engine,
                                   Get(engine.elements, LoadAt(i).elementId))),
       CombinationFactor(i))

\* v added to x when the DOF d is the entry k
WithHalf(x, k, d, v) == IF k = d + 1 THEN FAdd(x, v) ELSE x

\* after is F with half added at the start DOF and at the end DOF, each when
\* it is free
AddedAtEnds(F, after, start, end, half) ==
  /\ Len(after) = Len(F)
  /\ \A k \in 1..Len(F) :
       after[k] = WithHalf(WithHalf(F[k], k, start, half), k, end, half)

\* C22: a uniformly distributed element load adds
\* (magnitude x elementLength x factor) / 2 to the F entry of each end
\* node's DOF for the load's direction, for every direction, skipping a
\* restrained end; with both ends free the two halves are the total load
C22_DistributedLoadLumped ==
  Solved
    => \A i \in ElementLoads :
         /\ AddedAtEnds(engine.F,
                        applyElementLoad(engine, LoadAt(i),
                                         FactorOf(Combined, LoadAt(i))).F,
                        StartTargetOf(i), EndTargetOf(i),
                        FDiv(TotalLoadOf(i), FromInt(2)))
         /\ FAdd(FDiv(TotalLoadOf(i), FromInt(2)),
                 FDiv(TotalLoadOf(i), FromInt(2))) = TotalLoadOf(i)

\* the elements of the model whose stiffness the run has formed
Formed ==
  {i \in 1..Len(engine.elements.keys) :
     ~StiffnessThrows(engine, ElementAt(i))}

\* the difference of the i-th element's end coordinates
SpanOf(i) ==
  LET startNode == Get(engine.nodes, ElementAt(i).startNodeId)
      endNode == Get(engine.nodes, ElementAt(i).endNodeId)
  IN <<FSub(endNode.x, startNode.x), FSub(endNode.y, startNode.y),
       FSub(endNode.z, startNode.z)>>

\* the i-th element runs along one global axis
AxisAligned(i) ==
  Cardinality({c \in 1..3 : ~IsZero(SpanOf(i)[c])}) = 1

\* the 3x3 direction-cosine matrix the formulator uses for the i-th element
RotationOf(i) ==
  LET L == calculateElementLength(engine, ElementAt(i))
      T == calculateTransformationMatrix(FDiv(SpanOf(i)[1], L),
                                         FDiv(SpanOf(i)[2], L),
                                         FDiv(SpanOf(i)[3], L))
  IN Array([r \in 1..3 |-> Array([c \in 1..3 |-> T[r][c]])])

Identity3 == <<<<One, Zero, Zero>>, <<Zero, One, Zero>>, <<Zero, Zero, One>>>>

\* C23: for every axis-aligned element, an element parallel to the global
\* vertical axis included, the 3x3 direction-cosine matrix R is a rotation:
\* R * R^T = I, and so no row of R is zero
C23_RotationOrthonormal ==
  Solved
    => \A i \in Formed :
         AxisAligned(i)
           => matrixMultiply(RotationOf(i), matrixTranspose(RotationOf(i)))
                = Identity3

\* the one path the i-th load is applied through
PathOf(i) ==
  IF LoadAt(i).nodeId # "" THEN "nodal"
  ELSE IF LoadAt(i).elementId # "" /\ LoadAt(i).type = "distributed"
       THEN "element"
       ELSE "none"

\* F with v added at the DOF d when d is free
PlusAt(F, d, v) ==
  Array([k \in 1..Len(F) |-> IF k = d + 1 THEN FAdd(F[k], v) ELSE F[k]])

\* F after the i-th load has gone through its path
Through(F, i) ==
  IF PathOf(i) = "nodal"
  THEN PlusAt(F, TargetOf(i), FMul(LoadAt(i).magnitude, CombinationFactor(i)))
  ELSE IF PathOf(i) = "element"
       THEN applyElementLoad([engine EXCEPT !.F = F], LoadAt(i),
                             CombinationFactor(i)).F
       ELSE F

RECURSIVE ThroughFrom(_, _)
\* F after the loads from the i-th on have each gone through their path
ThroughFrom(F, i) ==
  IF i > Len(engine.loads.keys) THEN F
  ELSE ThroughFrom(Through(F, i), i + 1)

\* C28: each load is applied through exactly one path: as a nodal load
\* only when it has a nodeId, an elementId or not; as an element load when
\* it has only an elementId; a load with neither, or an element load whose
\* type is not 'distributed', changes no entry of F
C28_OnePathPerLoad ==
  Solved
    => engine.F
         = ThroughFrom(Array([k \in 1..Len(engine.F) |-> Zero]), 1)

\* the i-th load would change F if lumped on its element
WouldLump(i) ==
  /\ Has(engine.elements, LoadAt(i).elementId)
  /\ ~IsZero(TotalLoadOf(i))
  /\ LoadAt(i).direction \in {"x", "y", "z"}
  /\ (StartTargetOf(i) >= 0 \/ EndTargetOf(i) >= 0)

C28_Witness ==
  /\ Solved
  /\ \E i \in 1..Len(engine.loads.keys) :
       /\ LoadAt(i).nodeId # "" /\ WouldLump(i)
       /\ TargetOf(i) >= 0
  /\ \E i \in 1..Len(engine.loads.keys) :
       /\ LoadAt(i).nodeId = "" /\ LoadAt(i).type # "distributed"
       /\ WouldLump(i)
  /\ \E i \in 1..Len(engine.loads.keys) :
       /\ LoadAt(i).nodeId = "" /\ LoadAt(i).elementId = ""
       /\ ~IsZero(LoadAt(i).magnitude) /\ Factored(i)
  /\ \E i \in 1..Len(engine.loads.keys) :
       PathOf(i) = "element" /\ WouldLump(i)

\* K[p][q] = K[q][p] for all free DOFs p, q
SymmetricK ==
  \A p, q \in 1..Len(engine.K) : engine.K[p][q] = engine.K[q][p]

\* every element of the model runs along one global axis
AllAxisAligned == \A i \in 1..Len(engine.elements.keys) : AxisAligned(i)

RoundingTolerance == FDiv(One, FromInt(2^(Prec - 3)))

\* a and b differ by no more than the rounding tolerance of the larger
CloseTo(a, b) ==
  FLe(FAbs(FSub(a, b)), FMul(RoundingTolerance, FMax(FAbs(a), FAbs(b))))

\* no entry of K is NaN or infinite
FiniteK == \A p, q \in 1..Len(engine.K) : IsFinite(engine.K[p][q])

AISCCalled == design.outcome.code = "AISC360"

\* |axial| > 0 and a bending moment of the design exceeds 0.01 in magnitude
AxialWithBending ==
  /\ FGt(FAbs(design.forces.axial), Zero)
  /\ \/ FGt(FAbs(design.forces.momentY), Dec(1, 2))
     \/ FGt(FAbs(design.forces.momentZ), Dec(1, 2))

\* the places of the checks of a type among checks
PlacesOf(checks, checkType) ==
  {k \in 1..Len(checks) : checks[k].checkType = checkType}

\* the capacity of the only check of a type among checks, or other
CapacityOf(checks, checkType, other) ==
  IF PlacesOf(checks, checkType) = {} THEN other
  ELSE checks[CHOOSE k \in PlacesOf(checks, checkType) : TRUE].capacity

\* Pc/Pn + (8/9)(Mcx/Mnx + Mcy/Mny) when Pc/Pn >= 0.2, and
\* Pc/(2Pn) + (Mcx/Mnx + Mcy/Mny) otherwise
H1Ratio(Pc, Mcx, Mcy, Pn, Mnx, Mny) ==
  IF FGe(FDiv(Pc, Pn), Dec(2, 1))
  THEN FAdd(FDiv(Pc, Pn),
            FMul(FDiv(FromInt(8), FromInt(9)),
                 FAdd(FDiv(Mcx, Mnx), FDiv(Mcy, Mny))))
  ELSE FAdd(FDiv(Pc, FMul(FromInt(2), Pn)),
            FAdd(FDiv(Mcx, Mnx), FDiv(Mcy, Mny)))

\* the ratio of the combined check from the checks before it: Pn from the
\* compressive check in compression and the tensile yielding check in
\* tension, Mnx and Mny from the flexural checks or 0.9 Mp
H1RatioFrom(checks, forces, material, section) ==
  H1Ratio(FAbs(forces.axial), FAbs(forces.momentY), FAbs(forces.momentZ),
          CapacityOf(checks,
                     IF FLt(forces.axial, Zero) THEN "Compressive Strength"
                     ELSE "Tensile Yielding", Null),
          CapacityOf(checks, "Flexural Strength (Major Axis)",
                     FMul(FDiv(FMul(material.yieldStrength,
                                    section.sectionModulusY), Thousand),
                          Dec(9, 1))),
          CapacityOf(checks, "Flexural Strength (Minor Axis)",
                     FMul(FDiv(FMul(material.yieldStrength,
                                    section.sectionModulusZ), Thousand),
                          Dec(9, 1))))

\* exactly one combined check is among checks, with the H1 ratio
CombinedEmitted(checks, forces, material, section) ==
  /\ Cardinality(PlacesOf(checks, "Combined Axial and Flexural")) = 1
  /\ \A k \in PlacesOf(checks, "Combined Axial and Flexural") :
       checks[k].ratio = H1RatioFrom(checks, forces, material, section)

\* C24: whenever |axial| > 0 and a bending moment exceeds 0.01 in
\* magnitude, checkAISC360 emits exactly one 'Combined Axial and Flexural'
\* check, whose ratio is Pc/Pn + (8/9)(Mcx/Mnx + Mcy/Mny) when
\* Pc/Pn >= 0.2 and Pc/(2Pn) + (Mcx/Mnx + Mcy/Mny) otherwise, Pn being the
\* capacity of the axial check computed for the same forces
C24_CombinedCheck ==
  (AISCCalled /\ AxialWithBending)
    => /\ Returned
       /\ CombinedEmitted(ChecksReturned, design.forces, design.material,
                          design.section)

TensionChecks == {"Tensile Yielding", "Tensile Rupture", "Tension Resistance"}

CompressionChecks == {"Compressive Strength", "Compression Resistance"}

\* the types of the checks of the result that was returned
TypesReturned == {ChecksReturned[k].checkType : k \in 1..Len(ChecksReturned)}

AllForcesZero ==
  \A f \in DOMAIN design.forces : IsZero(design.forces[f])

\* C27: in one design-check result tension checks come only with axial > 0
\* and the compression check only with axial < 0, never both; when all
\* design forces are zero no check is emitted, overallStatus is PASS and
\* overallRatio is a finite number, 0
C27_NoChecksForNoForces ==
  Returned
    => /\ TypesReturned \cap TensionChecks # {}
            => FGt(design.forces.axial, Zero)
       /\ TypesReturned \cap CompressionChecks # {}
            => FLt(design.forces.axial, Zero)
       /\ TypesReturned \cap TensionChecks = {}
            \/ TypesReturned \cap CompressionChecks = {}
       /\ AllForcesZero
            => /\ ChecksReturned = <<>>
               /\ design.outcome.result.overallStatus = "PASS"
               /\ IsFinite(design.outcome.result.overallRatio)
               /\ design.outcome.result.overallRatio = Zero

\* two analyze requests for project p were under way together, both have
\* completed, and the model of p has not changed since
OverlapCompleted(p) ==
  requests = <<>> /\ served[p].beside = p /\ served[p].fresh

\* C25: two analyze requests for the same project that overlap in time
\* leave the store, once both have completed, with exactly one result for
\* each element of the project, however their awaited steps interleave
C25_OverlappingAnalyses ==
  \A p \in Projects :
    OverlapCompleted(p)
      => OnePerElement(StoredFor(store, p), ElementIdsOf(store, p))

\* the records of the map M whose projectId is p
RecordsOf(M, p) == {Get(M, k) : k \in {x \in KeySet(M) : Get(M, x).projectId = p}}

\* the sequence got holds exactly the records of M of project p, each once
ExactlyOf(got, M, p) ==
  /\ {got[i] : i \in 1..Len(got)} = RecordsOf(M, p)
  /\ Len(got) = Cardinality(RecordsOf(M, p))

\* what the handlers under way have got from the store, and what the store
\* gives for every project, are the records of the project
GotOwnRecords ==
  /\ \A i \in 1..Len(requests) :
       /\ ExactlyOf(requests[i].elements, store.elements, requests[i].projectId)
       /\ requests[i].pc \notin {"elements"}
            => ExactlyOf(requests[i].loads, store.loads, requests[i].projectId)
  /\ \A p \in Projects :
       ExactlyOf(getAnalysisResultsByProjectId(store, p), store.analysisResults, p)

\* the step of a handler from its await of getSupportsByProjectId: the call
\* of deleteAnalysisResultsByProjectId
DeletesOwnResults ==
  At("supports")
    => /\ RecordsOf(store'.analysisResults, Head(requests).projectId) = {}
       /\ \A q \in Projects \ {Head(requests).projectId} :
            /\ RecordsOf(store'.analysisResults, q)
                 = RecordsOf(store.analysisResults, q)
            /\ getAnalysisResultsByProjectId(store', q)
                 = getAnalysisResultsByProjectId(store, q)
       /\ store'.elements = store.elements
       /\ store'.loads = store.loads
       /\ store'.supports = store.supports

\* C29: deleteAnalysisResultsByProjectId(p) removes every analysis result of
\* project p and leaves the results of every other project and all
\* elements, loads and supports unchanged; get...ByProjectId(p) returns
\* exactly the stored records whose projectId is p
C29_ProjectIsolation == []GotOwnRecords /\ [][DeletesOwnResults]_vars

\* the results of project p have just been deleted, those of another project
\* are in the store beside elements and loads
C29_Witness ==
  /\ At("delete")
  /\ served[Head(requests).projectId].last # <<>>
  /\ getAnalysisResultsByProjectId(store, Head(requests).projectId) = <<>>
  /\ \E q \in Projects \ {Head(requests).projectId} :
       getAnalysisResultsByProjectId(store, q) # <<>>
  /\ Head(requests).elements # <<>>
  /\ store.loads.keys # <<>>

\* every record of the map M is keyed by its own id, the ids are pairwise
\* distinct, and each is below the counter of its kind
KeyedById(M, current) ==
  /\ \A k \in KeySet(M) : Get(M, k).id = k /\ k < current
  /\ \A i, j \in 1..Len(M.keys) :
       i # j => Values(M)[i].id # Values(M)[j].id

\* a step keeps the counter from falling, and a record it adds has an id
\* from the old counter on and below the new one
IssuedAbove(M, current, after, next) ==
  /\ next >= current
  /\ \A k \in KeySet(after) \ KeySet(M) : k >= current /\ k < next

\* the call that has just returned
LastCall == Head(requests')

\* the map of the kind of record that the call op is about
KindOf(st, op) ==
  IF op \in {"updateProject", "deleteProject", "createProject"}
  THEN st.projects ELSE st.elements

\* an update or delete of an id that is not present gives undefined or false
\* and changes nothing
AbsentNotFound ==
  (/\ requests' # <<>> /\ requests' # requests
   /\ LastCall.pc = "gave"
   /\ LastCall.op \in {"updateProject", "deleteProject", "updateElement",
                       "deleteElement"}
   /\ ~Has(KindOf(store, LastCall.op), LastCall.id))
    => /\ store' = store
       /\ LastCall.got = IF LastCall.op \in {"deleteProject", "deleteElement"}
                         THEN Defined(FALSE) ELSE Undefined

\* C30: after any sequence of create, update and delete every stored record
\* is keyed by its own id and the ids of one kind are pairwise distinct; the
\* id of a created record is greater than every id issued before for its
\* kind, so that the id of a deleted record is never issued again; an update
\* or delete of an id that is not present reports not-found and changes
\* nothing
C30_RecordIdentity ==
  /\ [](/\ KeyedById(store.elements, store.currentElementId)
        /\ KeyedById(store.projects, store.currentProjectId))
  /\ [][/\ IssuedAbove(store.elements, store.currentElementId,
                        store'.elements, store'.currentElementId)
        /\ IssuedAbove(store.projects, store.currentProjectId,
                        store'.projects, store'.currentProjectId)
        /\ AbsentNotFound]_vars

\* an element has been deleted and one with a greater id is stored, a
\* project is stored, and the last call was for an id that is not present
C30_Witness ==
  /\ store.elements.keys # <<>>
  /\ store.currentElementId > Len(store.elements.keys) + 1
  /\ \E k \in KeySet(store.elements) :
       \E j \in 1..(k - 1) : ~Has(store.elements, j)
  /\ store.projects.keys # <<>>
  /\ requests # <<>> /\ Head(requests).pc = "gave"
  /\ Head(requests).op \in {"updateElement", "deleteProject"}
  /\ Head(requests).got \in {Undefined, Defined(FALSE)}

=========================================================================
